---- MODULE Spec2Model ----
(***************************************************************************)
(* A model of stablecoin-trackoor: the whale scanner of whale_tracker.py   *)
(* (block cursors, per-address fetch, transfer decoding, alerting, the     *)
(* reload of the exported snapshot), the whale registry of                 *)
(* stablecoin_tracker.py and the supervising threads of main.py.           *)
(***************************************************************************)
EXTENDS Integers, Sequences, FiniteSets, TLC

(***************************************************************************)
(* Bounds of the model and constants of the program.                       *)
(***************************************************************************)
\* Heights the explorer may report: Lookback .. Lookback + MaxHeight.
MaxHeight == 1
\* Transactions one txlist reply may hold.
MaxTxs == 1
\* Largest whale_alert_threshold / large_tx_threshold tried (whole tokens).
MaxThreshold == 2
\* Largest mantissa of an encoded amount (amounts are m * 10^e base units).
MaxMant == 3
\* whale_tracker.py:208, "Start from last 1000 blocks".
Lookback == 1000

Chains == <<"ethereum", "bsc">>
ChainSet == {"ethereum", "bsc"}
Addresses == {"a1", "a2"}
Heights == Lookback .. (Lookback + MaxHeight)
Thresholds == 1 .. MaxThreshold

\* Python's Optional: None is the empty set, a value x is {x}.
None == {}
Some(x) == {x}
Get(o) == CHOOSE x \in o : TRUE

RECURSIVE Pow10(_)
Pow10(k) == IF k = 0 THEN 1 ELSE 10 * Pow10(k - 1)

(***************************************************************************)
(* Configuration (config.yaml): the tracked tokens and their contracts.    *)
(* A contract address is modelled by the pair <<token, chain>> it is       *)
(* configured for; OtherAddress is any address that is no tracked contract.*)
(***************************************************************************)
Tokens == {"usdt", "dai"}
TokenContract(token, chain) == <<token, chain>>
Contracts == {TokenContract(t, c) : t \in Tokens, c \in ChainSet}
OtherAddress == <<"other", "other">>

\* whale_tracker.py:171: 6 decimals for USDT and USDC, 18 for the rest.
Decimals(token) == IF token \in {"usdt", "usdc"} THEN 6 ELSE 18

(***************************************************************************)
(* Amounts.  An encoded amount is the integer m * 10^e; dividing it by     *)
(* 10^d gives m * 10^(e-d), kept as the pair [m, x] with x = e - d (which  *)
(* is negative for an amount below one token).  With m < 10 and an integer *)
(* threshold below 10^9 the comparison is that of the exact quotients, and *)
(* of Python's floats as well: no such quotient lies within an ulp of an   *)
(* integer without being one.                                              *)
(***************************************************************************)
Exponents == {6, 18}
Words == [m : 0 .. MaxMant, e : Exponents]

Scale(word, d) == [m |-> word.m, x |-> word.e - d]

AmountGt(a, t) ==
    IF a.m = 0 THEN 0 > t
    ELSE IF a.x >= 0
         THEN (IF a.x > 8 THEN TRUE ELSE a.m * Pow10(a.x) > t)
         ELSE (IF a.x < -8 THEN t <= 0 ELSE a.m > t * Pow10(-a.x))

AmountEq(a, t) ==
    IF a.m = 0 THEN t = 0
    ELSE IF a.x >= 0
         THEN (IF a.x > 8 THEN FALSE ELSE a.m * Pow10(a.x) = t)
         ELSE (IF a.x < -8 THEN FALSE ELSE a.m = t * Pow10(-a.x))

(***************************************************************************)
(* Raw account transactions (the txlist reply of the explorer).            *)
(*   to    : the call target                                               *)
(*   value : "0", "nonzero" (any other string) or "missing" (no such key)  *)
(*   input : "ok" (>= 138 characters ending in 64 hex digits),             *)
(*           "short" (< 138 characters), "badhex" (>= 138, not hex)        *)
(*   word  : the integer the trailing 64 hex digits encode                 *)
(*   ts    : "ok" (a decimal string), "bad" (missing or not a number)      *)
(* Fields the code does not read for a record are kept at a default.       *)
(***************************************************************************)
DefaultWord == [m |-> 0, e |-> 6]

RawTxs ==
    {tx \in [to : Contracts \cup {OtherAddress},
             value : {"0", "nonzero", "missing"},
             input : {"ok", "short", "badhex"},
             word : Words,
             ts : {"ok", "bad"}] :
        /\ (tx.to = OtherAddress => tx.value = "0")
        /\ (tx.to = OtherAddress \/ tx.value # "0" => tx.input = "ok")
        /\ (tx.to = OtherAddress \/ tx.value # "0" \/ tx.input # "ok"
                => tx.word = DefaultWord /\ tx.ts = "ok")}
(***************************************************************************)
(* WhaleTracker._process_transaction (whale_tracker.py:145-193).           *)
(***************************************************************************)
\* Lines 147-161: the tracked token whose contract on this chain is the call
\* target, None when the target is no tracked contract of the chain.
TrackedToken(tx, chain) ==
    {t \in Tokens : TokenContract(t, chain) = tx.to}

\* Lines 165-178: the amount of an ERC20 transfer, None when the record is
\* not one (value not '0', call data too short) or its word is not hex.
DecodeAmount(tx, chain) ==
    IF TrackedToken(tx, chain) = None THEN None
    ELSE IF tx.value = "0" /\ tx.input # "short"
         THEN (IF tx.input = "badhex" THEN None
               ELSE Some(Scale(tx.word, Decimals(Get(TrackedToken(tx, chain))))))
         ELSE None

\* Line 183, mutated: >= in place of >.
WhaleAlertNonStrict(value, threshold) ==
    AmountGt(value, threshold) \/ AmountEq(value, threshold)

\* Line 183: value > self.config['whale_alert_threshold'].
WhaleAlert(value, threshold) == AmountGt(value, threshold)

\* The method with line 165's test inverted (value != '0'): no ERC20 transfer
\* is ever decoded.
ProcessTransactionNativeOnly(tx, chain, threshold) ==
    IF TrackedToken(tx, chain) = None THEN "return"
    ELSE IF tx.value = "missing" THEN "raise"
    ELSE "return"

\* The whole method: "return" (lines 155, 175, 178), "raise" (KeyError at
\* line 165 for a record without 'value', ValueError/KeyError at line 180
\* for a bad timeStamp), "alert" (the notification of lines 184-193) or
\* "quiet" (decoded, not above the threshold).
ProcessTransaction(tx, chain, threshold) ==
    IF TrackedToken(tx, chain) = None THEN "return"
    ELSE IF tx.value = "missing" THEN "raise"
    ELSE IF DecodeAmount(tx, chain) = None THEN "return"
    ELSE IF tx.ts = "bad" THEN "raise"
    ELSE IF WhaleAlert(Get(DecodeAmount(tx, chain)), threshold) THEN "alert"
    ELSE "quiet"

\* The record is decoded into a transfer: an amount and a timestamp
\* (lines 165-180 complete).
Decoded(tx, chain) ==
    /\ TrackedToken(tx, chain) # None
    /\ tx.value # "missing"
    /\ DecodeAmount(tx, chain) # None
    /\ tx.ts = "ok"
(***************************************************************************)
(* The exported snapshot csv_reports/whale_summary.csv, as the whale       *)
(* tracker reads it: missing, unreadable, or rows (one per address, in     *)
(* the order export_whale_summary_to_csv writes them: by volume, largest   *)
(* first) of an address, its total volume and its active chains.           *)
(***************************************************************************)
Volumes == {MaxThreshold, MaxThreshold + 1}
ChainSets == (SUBSET ChainSet) \ {{}}
SnapshotRows == [address : Addresses, volume : Volumes, chains : ChainSets]

RowSeqs ==
    {r \in UNION {[1 .. n -> SnapshotRows] : n \in 0 .. Cardinality(Addresses)} :
        /\ \A i, j \in DOMAIN r : i # j => r[i].address # r[j].address
        /\ \A i, j \in DOMAIN r : i < j => r[i].volume >= r[j].volume}

NoRows == <<>>
Snapshots ==
    {[kind |-> "missing", rows |-> NoRows], [kind |-> "unreadable", rows |-> NoRows]}
        \cup {[kind |-> "ok", rows |-> r] : r \in RowSeqs}

\* whale_tracker.py:52, mutated: >= in place of >.
SignificantVolumeNonStrict(row, threshold) == row.volume >= threshold

\* whale_tracker.py:52: the rows with total volume > whale_alert_threshold.
SignificantVolume(row, threshold) == row.volume > threshold

WhalesOfChain(rows, chain, threshold) ==
    LET kept == SelectSeq(rows, LAMBDA r : SignificantVolume(r, threshold)
                                            /\ chain \in r.chains)
    IN  [i \in 1 .. Len(kept) |-> kept[i].address]

\* WhaleTracker._load_whale_addresses (whale_tracker.py:38-72).
LoadWhaleAddresses(snap, threshold) ==
    IF snap.kind # "ok"
    THEN [c \in ChainSet |-> <<>>]
    ELSE [c \in ChainSet |-> WhalesOfChain(snap.rows, c, threshold)]

(***************************************************************************)
(* Replies of the explorer.                                                *)
(***************************************************************************)
\* eth_blockNumber: a hex height, a string that is no hex number (a
\* rate-limit text), an error reply (no usable result), a network error.
BlockReplies ==
    [kind : {"hex"}, h : Heights]
        \cup [kind : {"nothex", "error", "network"}, h : {0}]

\* WhaleTracker._get_current_block (whale_tracker.py:86-114).
GetCurrentBlock(reply) ==
    IF reply.kind = "hex" THEN Some(reply.h) ELSE None

\* txlist: status '1' with a list of n records, an API error, a network
\* error.
TxReplies ==
    [kind : {"ok"}, n : 0 .. MaxTxs] \cup [kind : {"error", "network"}, n : {0}]

\* WhaleTracker._fetch_transactions (whale_tracker.py:116-143): the number
\* of records handed back.
FetchTransactions(reply) ==
    IF reply.kind = "ok" THEN reply.n ELSE 0
(***************************************************************************)
(* State.                                                                  *)
(***************************************************************************)
VARIABLES
    \* config.yaml
    whale_alert_threshold,
    \* csv_reports/whale_summary.csv
    snapshot,
    \* whale_tracker.main and the WhaleTracker it drives
    wpc,                \* where main is
    whale_addresses,    \* self.whale_addresses: chain -> list of addresses
    last_checked_block, \* self.last_checked_block: chain -> Optional height
    chainIdx,           \* the chain of the pass's for loop (line 202)
    whaleIdx,           \* the address of the for loop of line 217
    remaining,          \* records of line 230's for loop still to process
    current_block,      \* line 203's current_block (Optional)
    \* history of the running pass, and of the chain it scanned last
    cursorAtPassStart,  \* last_checked_block when the pass started
    latestAtStart,      \* what the snapshot held for each chain when it started
    scanned,            \* the chain the fields below are about (0: none)
    fetchStarts,        \* start blocks its fetches were given
    fetched,            \* records its fetches returned
    qualified,          \* processed records that decode above the threshold
    notified,           \* notifications emitted
    finished,           \* the pass is through with the chain
    \* stablecoin_tracker.py: the registry and its configuration
    max_transactions_per_address, \* CONFIG['max_transactions_per_address']
    large_tx_threshold, \* LARGE_TX_THRESHOLD
    whale_file,         \* data/whale_addresses.json
    recorded,           \* update_whale_data calls so far
    lastUpdate,         \* the last call: its transfer, the lists before line 218
    everPersisted,      \* the addresses data/whale_addresses.json has ever held
    \* one call of a classifier and what it gave
    probe,
    \* one token's supply scan: get_large_transactions for each chain in turn
    scan,
    \* a sequence of transfers recorded twice over, and the registries it gave
    replay,
    \* one chain as its explorer serves it, and the whale alerts logged
    ledger,             \* the height of the chain and the blocks with a whale's transfer
    alerts,             \* the blocks of the transfers notified, in order
    \* the work units of the supply scanner, one per token
    units,
    \* stablecoin_tracker.main and main.main
    spc,                \* where the stablecoin tracker's thread is
    last_update,        \* StablecoinTracker.last_update is set
    mpc,                \* where main.main is
    keys_present,       \* the API keys that are set in the environment
    restarted           \* the thread main's loop restarted in this round

passHistory ==
    <<cursorAtPassStart, latestAtStart, scanned, fetchStarts, fetched, qualified,
      notified, finished>>

whaleVars ==
    <<wpc, whale_addresses, last_checked_block, chainIdx, whaleIdx, remaining,
      current_block, passHistory>>

registryVars ==
    <<max_transactions_per_address, large_tx_threshold, whale_file, recorded,
      lastUpdate, everPersisted>>

stableVars == <<spc, last_update>>

mainVars == <<mpc, keys_present, restarted>>

notifyVars == <<ledger, alerts>>

outsideWhale ==
    <<registryVars, probe, scan, replay, notifyVars, units, stableVars, mainVars>>

vars == <<whale_alert_threshold, snapshot, whaleVars, outsideWhale>>

NoneEach == [c \in ChainSet |-> None]

(***************************************************************************)
(* The parts of the program a specification leaves at rest.                *)
(***************************************************************************)
\* A whale record as update_whale_data creates it (lines 168-174).
NewRecord ==
    [total_transactions |-> 0, chains |-> {}, tokens |-> {}, last_active |-> None,
     transactions |-> <<>>]

\* load_whale_data's {} (lines 149-150): no address.
EmptyData == [a \in {} |-> NewRecord]

NoFile == [kind |-> "missing", data |-> EmptyData]
NoUpdate == [done |-> FALSE, raised |-> FALSE, from |-> "", to |-> "", before |-> EmptyData]
NoProbe ==
    [kind |-> "none", tx |-> <<>>, chain |-> "", token |-> "", outcome |-> "",
     all |-> <<>>, result |-> <<>>]

NoReplay ==
    [phase |-> "first", txs |-> <<>>, next |-> 1, base |-> EmptyData,
     once |-> EmptyData, twice |-> EmptyData]

\* No supply scan is under way.
NoScan ==
    [pc |-> "idle", token |-> "", chainIdx |-> 1, page |-> 1, all |-> <<>>,
     events |-> <<>>, kinds |-> <<>>, fetches |-> <<>>, results |-> <<>>]

\* No chain is followed.
NoLedger == [tip |-> 0, blocks |-> {}]

NotifyAtRest == ledger = NoLedger /\ alerts = <<>>

\* No work unit has a transfer to record.
NoUnit == [pc |-> "idle", tx |-> <<>>, data |-> EmptyData]
NoUnits == [t \in Tokens |-> NoUnit]

RegistryAtRest ==
    /\ max_transactions_per_address = 0
    /\ large_tx_threshold = MaxThreshold
    /\ whale_file = NoFile
    /\ recorded = 0
    /\ lastUpdate = NoUpdate
    /\ everPersisted = {}

StableAtRest == spc = "unstarted" /\ last_update = FALSE

\* main.py:41: required_keys.
RequiredKeys == {"ETHERSCAN_API_KEY", "BSCSCAN_API_KEY"}

\* main.py:42: the required keys os.getenv finds unset or empty.
MissingKeys(present) == RequiredKeys \ present

MainAtRest == mpc = "none" /\ keys_present = RequiredKeys /\ restarted = "none"

NoWhales == [c \in ChainSet |-> <<>>]

chain == Chains[chainIdx]
InPass == wpc \in {"chain", "whale", "tx"}

NoHistory ==
    /\ cursorAtPassStart' = NoneEach
    /\ latestAtStart' = NoWhales
    /\ scanned' = 0
    /\ fetchStarts' = {}
    /\ fetched' = 0
    /\ qualified' = 0
    /\ notified' = 0
    /\ finished' = FALSE

\* Before WhaleTracker is constructed.
NoTracker ==
    /\ whale_addresses = NoWhales
    /\ last_checked_block = NoneEach
    /\ chainIdx = 1
    /\ whaleIdx = 1
    /\ remaining = 0
    /\ current_block = None
    /\ cursorAtPassStart = NoneEach
    /\ latestAtStart = NoWhales
    /\ scanned = 0
    /\ fetchStarts = {}
    /\ fetched = 0
    /\ qualified = 0
    /\ notified = 0
    /\ finished = FALSE

\* whale_tracker.main is entered.
WhaleInit == wpc = "init" /\ NoTracker

(***************************************************************************)
(* whale_tracker.main (whale_tracker.py:241-253) and                       *)
(* WhaleTracker.check_whale_transactions (195-233), one step per explorer  *)
(* call, per processed record and per sleep.  An action that reads the     *)
(* snapshot file is given the contents it may find there: the file as it   *)
(* is, {snapshot}, or what the supply scanner's side has just written.     *)
(***************************************************************************)
\* Line 242: WhaleTracker(...).  The constructor loads the configuration,
\* the snapshot and the API keys; it raises when config.yaml or a key is
\* missing, and main ends with that exception.
Construct(found) ==
    /\ wpc = "init"
    /\ \/ /\ wpc' = "loop"
          /\ \E s \in found :
                /\ snapshot' = s
                /\ whale_addresses' = LoadWhaleAddresses(s, whale_alert_threshold)
          /\ last_checked_block' = NoneEach
       \/ /\ wpc' = "dead"
          /\ UNCHANGED <<snapshot, whale_addresses, last_checked_block>>
    /\ UNCHANGED <<outsideWhale, whale_alert_threshold, chainIdx, whaleIdx, remaining,
                   current_block, passHistory>>

\* Line 247: the call of check_whale_transactions; lines 197-200 change
\* nothing.
StartPass ==
    /\ wpc = "loop"
    /\ wpc' = "chain"
    /\ chainIdx' = 1
    /\ whaleIdx' = 1
    /\ remaining' = 0
    /\ current_block' = None
    /\ cursorAtPassStart' = last_checked_block
    /\ latestAtStart' = LoadWhaleAddresses(snapshot, whale_alert_threshold)
    /\ scanned' = 0
    /\ fetchStarts' = {}
    /\ fetched' = 0
    /\ qualified' = 0
    /\ notified' = 0
    /\ finished' = FALSE
    /\ UNCHANGED <<outsideWhale, whale_alert_threshold, snapshot, whale_addresses, last_checked_block>>

\* Line 208, mutated: the lookback is applied only to the fetches.
InitialCursorNoLookback(h) == h

\* Line 208: current_block - 1000.
InitialCursor(h) == h - Lookback

\* Line 233, mutated: the cursor is left where it was.
AdvancedCursorKept(cursor, h) == cursor

\* Line 233: self.last_checked_block[chain] = current_block.
AdvancedCursor(cursor, h) == h

\* The for loop of line 202 moves on: the next chain, or the end of the pass
\* (line 249 follows).
ChainDone ==
    /\ finished' = TRUE
    /\ wpc' = IF chainIdx = Len(Chains) THEN "reload" ELSE "chain"
    /\ chainIdx' = IF chainIdx = Len(Chains) THEN chainIdx ELSE chainIdx + 1

\* Line 233, mutated: indented into the for loop of line 217, so that the
\* cursor advances after every address.
WhaleDoneAdvancingEach ==
    /\ last_checked_block' =
           [last_checked_block EXCEPT ![chain] = Some(Get(current_block))]
    /\ IF whaleIdx < Len(whale_addresses[chain])
       THEN /\ wpc' = "whale"
            /\ whaleIdx' = whaleIdx + 1
            /\ UNCHANGED <<chainIdx, finished>>
       ELSE /\ whaleIdx' = whaleIdx
            /\ ChainDone

\* The for loop of line 217 moves on: the next address, or line 233 and the
\* next chain.
WhaleDone ==
    IF whaleIdx < Len(whale_addresses[chain])
    THEN /\ wpc' = "whale"
         /\ whaleIdx' = whaleIdx + 1
         /\ UNCHANGED <<last_checked_block, chainIdx, finished>>
    ELSE /\ last_checked_block' =
                [last_checked_block EXCEPT
                    ![chain] = Some(AdvancedCursor(Get(@), Get(current_block)))]
         /\ whaleIdx' = whaleIdx
         /\ ChainDone

\* Lines 203-215: the height of the chain, the first cursor, the chain's
\* addresses.
CheckChain(replies) ==
    /\ wpc = "chain"
    /\ scanned' = chainIdx
    /\ fetchStarts' = {}
    /\ fetched' = 0
    /\ qualified' = 0
    /\ notified' = 0
    /\ \E reply \in replies :
          LET h == GetCurrentBlock(reply) IN
          /\ current_block' = h
          /\ IF h = None
             THEN /\ ChainDone
                  /\ UNCHANGED <<last_checked_block, whaleIdx>>
             ELSE /\ last_checked_block' =
                         [last_checked_block EXCEPT
                             ![chain] = IF @ = None THEN Some(InitialCursor(Get(h)))
                                        ELSE @]
                  /\ IF whale_addresses[chain] = <<>>
                     THEN /\ ChainDone
                          /\ UNCHANGED whaleIdx
                     ELSE /\ wpc' = "whale"
                          /\ whaleIdx' = 1
                          /\ finished' = FALSE
                          /\ UNCHANGED chainIdx
    /\ UNCHANGED <<outsideWhale, whale_alert_threshold, snapshot, whale_addresses, remaining,
                   cursorAtPassStart, latestAtStart>>

\* Lines 219-228: the fetch of one address's records from the cursor on.
FetchAddress(replies) ==
    /\ wpc = "whale"
    /\ \E reply \in replies :
          LET n == FetchTransactions(reply) IN
          /\ fetchStarts' = fetchStarts \cup last_checked_block[chain]
          /\ fetched' = fetched + n
          /\ IF n > 0
             THEN /\ wpc' = "tx"
                  /\ remaining' = n
                  /\ UNCHANGED <<last_checked_block, chainIdx, whaleIdx, finished>>
             ELSE /\ remaining' = 0
                  /\ WhaleDone
    /\ UNCHANGED <<outsideWhale, whale_alert_threshold, snapshot, whale_addresses, current_block,
                   cursorAtPassStart, latestAtStart, scanned, qualified, notified>>

\* Lines 230-231: one record through _process_transaction.  An exception
\* leaves check_whale_transactions and reaches main's handler (line 251).
ProcessRecord(txs) ==
    /\ wpc = "tx"
    /\ \E tx \in txs :
          LET out == ProcessTransaction(tx, chain, whale_alert_threshold) IN
          IF out = "raise"
          THEN /\ wpc' = "except"
               /\ UNCHANGED <<last_checked_block, chainIdx, whaleIdx, remaining,
                              qualified, notified, finished>>
          ELSE /\ notified' = notified + (IF out = "alert" THEN 1 ELSE 0)
               /\ qualified' =
                      qualified + (IF /\ Decoded(tx, chain)
                                      /\ AmountGt(Get(DecodeAmount(tx, chain)),
                                                  whale_alert_threshold)
                                   THEN 1 ELSE 0)
               /\ remaining' = remaining - 1
               /\ IF remaining = 1
                  THEN WhaleDone
                  ELSE UNCHANGED <<wpc, last_checked_block, chainIdx, whaleIdx, finished>>
    /\ UNCHANGED <<outsideWhale, whale_alert_threshold, snapshot, whale_addresses, current_block,
                   cursorAtPassStart, latestAtStart, scanned, fetchStarts, fetched>>

\* Line 249: reload_whale_addresses (235-239), after the pass.
Reload(found) ==
    /\ wpc = "reload"
    /\ \E s \in found :
          /\ snapshot' = s
          /\ whale_addresses' = LoadWhaleAddresses(s, whale_alert_threshold)
    /\ wpc' = "sleep"
    /\ NoHistory
    /\ UNCHANGED <<outsideWhale, whale_alert_threshold, last_checked_block, chainIdx,
                   whaleIdx, remaining, current_block>>

\* Line 250: the 15 minutes between passes are over.
Sleep ==
    /\ wpc = "sleep"
    /\ wpc' = "loop"
    /\ UNCHANGED <<outsideWhale, whale_alert_threshold, snapshot, whale_addresses, last_checked_block,
                   chainIdx, whaleIdx, remaining, current_block, passHistory>>

\* Lines 251-253, mutated: the handler raises the exception again.
RecoverReraise ==
    /\ wpc = "except"
    /\ wpc' = "dead"
    /\ NoHistory
    /\ UNCHANGED <<outsideWhale, whale_alert_threshold, snapshot, whale_addresses, last_checked_block,
                   chainIdx, whaleIdx, remaining, current_block>>

\* Lines 251-253: the handler logs the exception and sleeps a minute.
Recover ==
    /\ wpc = "except"
    /\ wpc' = "loop"
    /\ NoHistory
    /\ UNCHANGED <<outsideWhale, whale_alert_threshold, snapshot, whale_addresses, last_checked_block,
                   chainIdx, whaleIdx, remaining, current_block>>

\* The supply scanner's side writes a new snapshot
\* (export_whale_summary_to_csv, stablecoin_tracker.py:288-319), or the file
\* is removed or damaged.
ExportSnapshot(snapshots) ==
    /\ \E s \in snapshots : s # snapshot /\ snapshot' = s
    /\ UNCHANGED <<outsideWhale, whale_alert_threshold, whaleVars>>

(***************************************************************************)
(* Spec: the whale scanner under every reply of the explorer.  The tracker *)
(* reads the snapshot at lines 242 and 249 only, and each read finds what  *)
(* was written last; the rows written are whales under every threshold,    *)
(* which leaves each chain with zero, one or two addresses.                *)
(***************************************************************************)
WhaleSnapshots ==
    {s \in Snapshots : \A i \in DOMAIN s.rows : s.rows[i].volume > MaxThreshold}

Init ==
    /\ whale_alert_threshold = MaxThreshold
    /\ snapshot = [kind |-> "missing", rows |-> NoRows]
    /\ WhaleInit
    /\ RegistryAtRest
    /\ probe = NoProbe
    /\ scan = NoScan
    /\ replay = NoReplay
    /\ NotifyAtRest
    /\ units = NoUnits
    /\ StableAtRest
    /\ MainAtRest

Next ==
    \/ Construct(WhaleSnapshots)
    \/ StartPass
    \/ CheckChain(BlockReplies)
    \/ FetchAddress(TxReplies)
    \/ ProcessRecord(RawTxs)
    \/ Reload(WhaleSnapshots)
    \/ Sleep
    \/ Recover

Spec == Init /\ [][Next]_vars
(***************************************************************************)
(* The cursor (claims C1 to C4, C7), under Spec.                           *)
(***************************************************************************)
\* The chain the pass worked on last, and its cursor now and at the start of
\* the pass.
scannedChain == Chains[scanned]
cursorNow == last_checked_block[scannedChain]
cursorBefore == cursorAtPassStart[scannedChain]
PassOver == wpc \in {"reload", "except"}

\* C1: when a pass is over (completed or interrupted), every chain whose
\* cursor was set when the pass started has a cursor that is set and not
\* lower than it was.
C1_CursorNeverDecreases ==
    PassOver =>
        \A c \in ChainSet :
            cursorAtPassStart[c] # None =>
                /\ last_checked_block[c] # None
                /\ Get(last_checked_block[c]) >= Get(cursorAtPassStart[c])

\* C2: when the pass is through with a chain whose height h it obtained, the
\* chain's cursor is h, whatever the number of addresses of the chain.
C2_CursorIsHeightWhenChainFinished ==
    finished /\ current_block # None => cursorNow = current_block

\* C2, amended: when the pass is through with a chain whose height h it
\* obtained, the chain's cursor is h if the chain has at least one address;
\* with no address it is what line 208 left: the cursor of the start of the
\* pass, or h - 1000 if that was unset.
C2_CursorIsHeightWhenAddressesScanned ==
    finished /\ current_block # None =>
        IF whale_addresses[scannedChain] # <<>>
        THEN cursorNow = current_block
        ELSE cursorNow = (IF cursorBefore = None
                          THEN Some(Get(current_block) - Lookback)
                          ELSE cursorBefore)

\* C2's case: a chain with two addresses, one fetch with a record and no
\* alert, one without records, finished with the cursor moved to a new
\* height.
C2_Witness ==
    /\ finished /\ current_block # None
    /\ Len(whale_addresses[scannedChain]) = 2
    /\ fetched = 1 /\ notified = 0
    /\ cursorBefore # None /\ cursorBefore # current_block
    /\ cursorNow = current_block

\* C3: a cursor leaves None only in the step that obtains the chain's
\* height h, which sets it to h - 1000 before any fetch of the chain; a step
\* that fails to obtain the height changes no cursor; and every fetch of a
\* chain's first pass is given the start block h - 1000.
C3_FirstCursorStep ==
    \A c \in ChainSet :
        /\ last_checked_block[c] = None /\ last_checked_block'[c] # None
              => /\ wpc = "chain" /\ chain = c
                 /\ current_block' # None
                 /\ last_checked_block'[c] = Some(Get(current_block') - Lookback)
                 /\ fetchStarts' = {}
        /\ wpc = "chain" /\ chain = c /\ current_block' = None
              => last_checked_block' = last_checked_block
        /\ wpc = "chain" /\ chain = c /\ current_block' # None
              => last_checked_block'[c] # None

C3_FirstPassFetches ==
    scanned # 0 /\ cursorBefore = None /\ current_block # None
        => fetchStarts \subseteq {Get(current_block) - Lookback}

C3_FirstCursorIsLookback ==
    /\ [](C3_FirstPassFetches)
    /\ [][C3_FirstCursorStep]_vars

\* C3's case: the first pass of a chain with two addresses, both fetched from
\* h - 1000.
C3_Witness ==
    /\ scanned # 0 /\ finished
    /\ cursorBefore = None /\ current_block # None
    /\ Len(whale_addresses[scannedChain]) = 2
    /\ fetchStarts = {Get(current_block) - Lookback}

\* C4: when an exception interrupts the pass among a chain's addresses, the
\* chain's cursor is what it was when the pass started.
C4_InterruptKeepsCursor ==
    wpc = "except" => last_checked_block[chain] = cursorAtPassStart[chain]

\* C4, amended: ... the chain's cursor is what it was when the pass started
\* if it was set then; in the chain's first pass it is h - 1000, set by line
\* 208 before the addresses.
C4_InterruptKeepsSetCursor ==
    wpc = "except" =>
        last_checked_block[chain] =
            (IF cursorAtPassStart[chain] = None
             THEN Some(Get(current_block) - Lookback)
             ELSE cursorAtPassStart[chain])

\* C4's case: the pass is interrupted at the second address of a chain whose
\* cursor was set and is below the height of the pass.
C4_Witness ==
    /\ wpc = "except"
    /\ whaleIdx = 2
    /\ cursorAtPassStart[chain] # None
    /\ Get(current_block) > Get(cursorAtPassStart[chain])

\* C7: a chain with one address, cursor c, height h > c, whose fetch returns
\* one record that decodes to an amount above the threshold: when the pass
\* is through with the chain, one notification was emitted and the cursor
\* is h.
C7_OneAddress ==
    /\ scanned # 0
    /\ Len(whale_addresses[scannedChain]) = 1
    /\ cursorBefore # None /\ current_block # None
    /\ Get(current_block) > Get(cursorBefore)

C7_OneAlertAndAdvance ==
    finished /\ C7_OneAddress /\ fetched = 1 /\ qualified = 1
        => notified = 1 /\ cursorNow = current_block

C7_Witness ==
    /\ finished /\ C7_OneAddress /\ fetched = 1 /\ qualified = 1
    /\ notified = 1 /\ cursorNow = current_block

(***************************************************************************)
(* The whale registry: update_whale_data over data/whale_addresses.json.  *)
(***************************************************************************)
MaxRecorded == 3
MaxKept == 2

\* A token-transfer record of the tokentx endpoint.  value is None when it
\* is not a number; timeStamp is None when it is not an integer.
TokenTxs(froms, tos, values, decimals, stamps, hashes) ==
    [from: froms, to: tos, value: values, tokenDecimal: decimals,
     timeStamp: stamps, hash: hashes]

\* float(tx['value']) / (10 ** int(tx['tokenDecimal']))
Amount(tx) == Scale(Get(tx.value), tx.tokenDecimal)

LoadWhaleData(file) == IF file.kind = "ok" THEN file.data ELSE EmptyData

SaveWhaleData(data) == [kind |-> "ok", data |-> data]

\* Python's list[start:].
PySliceFrom(list, start) ==
    LET n == Len(list)
        first == IF start < 0
                 THEN (IF n + start < 0 THEN 0 ELSE n + start)
                 ELSE (IF start > n THEN n ELSE start)
    IN SubSeq(list, first + 1, n)

\* transactions[-max_txs:]
KeepLast(list, max_txs) == PySliceFrom(list, 0 - max_txs)

WithAddress(data, a) ==
    IF a \in DOMAIN data THEN data
    ELSE [x \in DOMAIN data \cup {a} |-> IF x = a THEN NewRecord ELSE data[x]]

Entry(type, tx, c, token_name) ==
    [type |-> type, token |-> token_name, chain |-> c, amount |-> Amount(tx),
     timestamp |-> Get(tx.timeStamp), tx_hash |-> tx.hash]

Touched(rec, type, tx, c, token_name) ==
    [total_transactions |-> rec.total_transactions + 1,
     chains |-> rec.chains \cup {c},
     tokens |-> rec.tokens \cup {token_name},
     last_active |-> tx.timeStamp,
     transactions |-> Append(rec.transactions, Entry(type, tx, c, token_name))]

\* Lines 166-214 without the receiver's part (199-211).
AppendedWhaleDataSenderOnly(data, tx, c, token_name) ==
    LET created == WithAddress(WithAddress(data, tx.from), tx.to)
    IN [created EXCEPT ![tx.from] = Touched(@, "send", tx, c, token_name)]

\* update_whale_data up to the truncation (lines 166-214).
AppendedWhaleData(data, tx, c, token_name) ==
    LET created == WithAddress(WithAddress(data, tx.from), tx.to)
        sent == [created EXCEPT ![tx.from] = Touched(@, "send", tx, c, token_name)]
    IN [sent EXCEPT ![tx.to] = Touched(@, "receive", tx, c, token_name)]

\* The truncation (lines 217-219).
Truncated(data, tx, max_txs) ==
    LET sender == [data EXCEPT ![tx.from].transactions = KeepLast(@, max_txs)]
    IN [sender EXCEPT ![tx.to].transactions = KeepLast(@, max_txs)]

\* The function with a test added before line 166: a transfer whose hash
\* the sender's record already lists is dropped.
UpdateWhaleDataDeduplicating(data, tx, c, token_name, max_txs) ==
    IF /\ tx.from \in DOMAIN data
       /\ \E i \in DOMAIN data[tx.from].transactions :
             data[tx.from].transactions[i].tx_hash = tx.hash
    THEN data
    ELSE Truncated(AppendedWhaleData(data, tx, c, token_name), tx, max_txs)

UpdateWhaleData(data, tx, c, token_name, max_txs) ==
    Truncated(AppendedWhaleData(data, tx, c, token_name), tx, max_txs)

\* One call of update_whale_data: a record whose value or timeStamp cannot
\* be converted raises at lines 163-164, before anything is written.
RecordTransfer(txs) ==
    /\ recorded < MaxRecorded
    /\ \E t \in txs, c \in ChainSet, token_name \in Tokens :
         LET tx == [t EXCEPT !.hash = recorded + 1]
             data == LoadWhaleData(whale_file)
         IN IF tx.value = None \/ tx.timeStamp = None
            THEN /\ whale_file' = whale_file
                 /\ lastUpdate' = [NoUpdate EXCEPT !.raised = TRUE]
            ELSE /\ whale_file' = SaveWhaleData(
                        UpdateWhaleData(data, tx, c, token_name,
                                        max_transactions_per_address))
                 /\ lastUpdate' = [done |-> TRUE, raised |-> FALSE,
                                   from |-> tx.from, to |-> tx.to,
                                   before |-> AppendedWhaleData(data, tx, c, token_name)]
    /\ recorded' = recorded + 1
    /\ everPersisted' = everPersisted \cup DOMAIN whale_file'.data
    /\ UNCHANGED <<whale_alert_threshold, snapshot, whaleVars, probe, scan, replay, stableVars,
                   mainVars, max_transactions_per_address, large_tx_threshold, notifyVars, units>>

RegistryTxs ==
    TokenTxs(Addresses, Addresses, {Some([m |-> 1, e |-> 6])}, {6},
             {None, Some(1)}, {0})

InitRegistry ==
    /\ whale_alert_threshold = MaxThreshold
    /\ snapshot = [kind |-> "missing", rows |-> NoRows]
    /\ WhaleInit
    /\ max_transactions_per_address \in 0..MaxKept
    /\ large_tx_threshold = MaxThreshold
    /\ whale_file = NoFile
    /\ recorded = 0
    /\ lastUpdate = NoUpdate
    /\ everPersisted = {}
    /\ probe = NoProbe
    /\ scan = NoScan
    /\ replay = NoReplay
    /\ NotifyAtRest
    /\ units = NoUnits
    /\ StableAtRest
    /\ MainAtRest

NextRegistry == RecordTransfer(RegistryTxs)

SpecRegistry == InitRegistry /\ [][NextRegistry]_vars

\* The last n entries of a list, in their order (all of it when shorter).
MostRecent(list, n) ==
    SubSeq(list, Len(list) - (IF n < Len(list) THEN n ELSE Len(list)) + 1, Len(list))

\* C5: after a call of update_whale_data, each record the call touched holds
\* at most max_transactions_per_address entries, and they are the most recent
\* entries of the list the call appended to, in their original order.
C5_ListCappedFifo ==
    lastUpdate.done =>
        \A a \in {lastUpdate.from, lastUpdate.to} :
            LET kept == whale_file.data[a].transactions
                appended == lastUpdate.before[a].transactions
            IN /\ Len(kept) <= max_transactions_per_address
               /\ kept = MostRecent(appended, max_transactions_per_address)

(***************************************************************************)
(* Classification: get_large_transactions (stablecoin_tracker.py:104-133)  *)
(* and _process_transaction, each applied once to what the explorer may    *)
(* hand back.                                                              *)
(***************************************************************************)
\* Records one tokentx page may hold.
MaxPage == 1
\* stablecoin_tracker.py:130, large_txs[:10].
TopK == 10

\* a < b for two amounts with mantissas below 10.
AmountLess(a, b) ==
    IF b.m = 0 THEN FALSE
    ELSE IF a.m = 0 THEN TRUE
    ELSE IF a.x # b.x THEN a.x < b.x
    ELSE a.m < b.m

\* The records of one contract's transfers: one tokenDecimal for all.
SupplyTxs(d) ==
    TokenTxs({"a1"}, {"a2"}, {None} \cup {Some(w) : w \in Words}, {d}, {Some(1)}, {0})

\* tokentx: message OK / status '1' with a list of records, an API error, a
\* network error or a body that is no JSON.
PageReplies(d) ==
    {[kind |-> "ok", txs |-> l] :
        l \in UNION {[1 .. n -> SupplyTxs(d)] : n \in 0 .. MaxPage}}
      \cup {[kind |-> k, txs |-> <<>>] : k \in {"error", "network"}}

\* Line 93, mutated: the result is handed back whatever the status.
GetTransactionsPageUnchecked(reply) == reply.txs

\* get_transactions_page (lines 68-102).
GetTransactionsPage(reply) == IF reply.kind = "ok" THEN reply.txs ELSE <<>>

\* Line 122, mutated: >= in place of >.
IsLargeNonStrict(tx, threshold) ==
    AmountGt(Amount(tx), threshold) \/ AmountEq(Amount(tx), threshold)

\* Line 122: float(tx['value']) / (10 ** int(tx['tokenDecimal'])) > LARGE_TX_THRESHOLD
IsLarge(tx, threshold) == AmountGt(Amount(tx), threshold)

\* Lines 126-129: list.sort by amount, reverse=True (stable: records of equal
\* amount keep their order).
InsertDesc(sorted, tx) ==
    LET n == Cardinality({i \in DOMAIN sorted :
                             ~AmountLess(Amount(sorted[i]), Amount(tx))})
    IN SubSeq(sorted, 1, n) \o <<tx>> \o SubSeq(sorted, n + 1, Len(sorted))

RECURSIVE SortDesc(_)
SortDesc(list) ==
    IF list = <<>> THEN <<>>
    ELSE InsertDesc(SortDesc(SubSeq(list, 1, Len(list) - 1)), list[Len(list)])

\* Lines 118-133 without the sort of lines 126-129.
LargeTransactionsUnsorted(all, threshold) ==
    IF \E i \in DOMAIN all : all[i].value = None THEN <<>>
    ELSE LET large == SelectSeq(all, LAMBDA tx : IsLarge(tx, threshold))
         IN SubSeq(large, 1, IF Len(large) < TopK THEN Len(large) ELSE TopK)

\* Lines 118-133: a record whose value is no number raises inside the try,
\* and the result is [].
LargeTransactions(all, threshold) ==
    IF \E i \in DOMAIN all : all[i].value = None THEN <<>>
    ELSE LET sorted == SortDesc(SelectSeq(all, LAMBDA tx : IsLarge(tx, threshold)))
         IN SubSeq(sorted, 1, IF Len(sorted) < TopK THEN Len(sorted) ELSE TopK)

\* get_large_transactions(chain, token_address): pages 1 and 2, then the
\* filter.
GetLargeTransactions(decimals) ==
    /\ probe = NoProbe
    /\ \E c \in ChainSet, token \in Tokens, d \in decimals :
       \E r1, r2 \in PageReplies(d) :
          LET all == GetTransactionsPage(r1) \o GetTransactionsPage(r2) IN
          probe' = [NoProbe EXCEPT !.kind = "large", !.chain = c, !.token = token,
                                   !.all = all,
                                   !.result = LargeTransactions(all, large_tx_threshold)]
    /\ UNCHANGED <<whale_alert_threshold, snapshot, whaleVars, registryVars, scan, replay,
                   stableVars, mainVars, notifyVars, units>>

\* _process_transaction(tx, chain, whale_info) on one record.
ProcessOne(txs) ==
    /\ probe = NoProbe
    /\ \E tx \in txs, c \in ChainSet :
          probe' = [NoProbe EXCEPT !.kind = "whale", !.chain = c, !.tx = tx,
                                   !.outcome = ProcessTransaction(tx, c, whale_alert_threshold)]
    /\ UNCHANGED <<whale_alert_threshold, snapshot, whaleVars, registryVars, scan, replay,
                   stableVars, mainVars, notifyVars, units>>

InitClassify ==
    /\ whale_alert_threshold \in Thresholds
    /\ snapshot = [kind |-> "missing", rows |-> NoRows]
    /\ WhaleInit
    /\ max_transactions_per_address = 0
    /\ large_tx_threshold = whale_alert_threshold
    /\ whale_file = NoFile
    /\ recorded = 0
    /\ lastUpdate = NoUpdate
    /\ everPersisted = {}
    /\ probe = NoProbe
    /\ scan = NoScan
    /\ replay = NoReplay
    /\ NotifyAtRest
    /\ units = NoUnits
    /\ StableAtRest
    /\ MainAtRest

NextClassify == GetLargeTransactions(Exponents) \/ ProcessOne(RawTxs)

SpecClassify == InitClassify /\ [][NextClassify]_vars

\* m * 10^e base units of a token with d decimals are more than t tokens,
\* for a mantissa below 10 and a threshold from 1 to 9.
Exceeds(word, d, t) ==
    /\ word.m # 0
    /\ \/ word.e > d
       \/ word.e = d /\ word.m > t

\* C6: a record that decodes to amount A raises a whale notification iff
\* A > whale_alert_threshold, and a transfer of a batch whose records all
\* decode is returned as large iff A > large_tx_threshold; A equal to the
\* threshold is not classified, whatever the chain and the token.
C6_StrictThreshold ==
    /\ probe.kind = "whale" /\ Decoded(probe.tx, probe.chain) =>
          (probe.outcome = "alert" <=>
              Exceeds(probe.tx.word,
                      Decimals(Get(TrackedToken(probe.tx, probe.chain))),
                      whale_alert_threshold))
    /\ probe.kind = "large" /\ (\A i \in DOMAIN probe.all : probe.all[i].value # None) =>
          \A i \in DOMAIN probe.all :
              (\E j \in DOMAIN probe.result : probe.result[j] = probe.all[i]) <=>
                  Exceeds(Get(probe.all[i].value), probe.all[i].tokenDecimal,
                          large_tx_threshold)

\* A record decoded to exactly the threshold went through
\* _process_transaction without a notification.
C6_Witness ==
    /\ probe.kind = "whale"
    /\ Decoded(probe.tx, probe.chain)
    /\ AmountEq(Get(DecodeAmount(probe.tx, probe.chain)), whale_alert_threshold)
    /\ probe.outcome = "quiet"

(***************************************************************************)
(* SpecReload: the whale scanner while the snapshot is rewritten at any    *)
(* moment; the tracker finds at lines 242 and 249 the file as it is.       *)
(***************************************************************************)
ReloadSnapshots == {s \in WhaleSnapshots : Len(s.rows) <= 1}

NextReload ==
    \/ Construct({snapshot})
    \/ StartPass
    \/ CheckChain(BlockReplies)
    \/ FetchAddress(TxReplies)
    \/ ProcessRecord(RawTxs)
    \/ Reload({snapshot})
    \/ Sleep
    \/ Recover
    \/ ExportSnapshot(ReloadSnapshots)

SpecReload == Init /\ [][NextReload]_vars

\* C8: throughout a pass, the addresses the tracker scans on each chain are
\* those of the snapshot as it was when the pass started.
C8_PassScansLatestSnapshot == InPass => whale_addresses = latestAtStart

(***************************************************************************)
(* SpecMain: main.main (main.py:48-88) with the two tracker threads it     *)
(* starts and watches.  A thread is "dead" once its target has returned:   *)
(* run_stablecoin_tracker and run_whale_tracker (19-35) log whatever       *)
(* leaves the tracker's main and return.                                   *)
(***************************************************************************)
\* check_api_keys looking for the first required key only.
CheckApiKeysFirstOnly ==
    /\ mpc = "check"
    /\ mpc' = IF "ETHERSCAN_API_KEY" \in keys_present THEN "start" ELSE "ended"
    /\ UNCHANGED <<whale_alert_threshold, snapshot, whaleVars, registryVars, probe, scan, replay,
                   stableVars, keys_present, restarted, notifyVars, units>>

\* Lines 50-51 and 38-46: check_api_keys raises when a key is missing;
\* main logs it (84-87) and returns, no thread having been started.
CheckApiKeys ==
    /\ mpc = "check"
    /\ mpc' = IF MissingKeys(keys_present) = {} THEN "start" ELSE "ended"
    /\ UNCHANGED <<whale_alert_threshold, snapshot, whaleVars, registryVars, probe, scan, replay,
                   stableVars, keys_present, restarted, notifyVars, units>>

\* Lines 54-62: both threads are created and started.
StartThreads ==
    /\ mpc = "start"
    /\ mpc' = "monitor_stablecoin"
    /\ spc' = "init"
    /\ wpc' = "init"
    /\ UNCHANGED <<whale_alert_threshold, snapshot, registryVars, probe, scan, replay, last_update,
                   keys_present, restarted, whale_addresses, last_checked_block,
                   chainIdx, whaleIdx, remaining, current_block, passHistory, notifyVars, units>>

\* Lines 66-70: a stablecoin thread that is not alive is replaced.
MonitorStablecoin ==
    /\ mpc = "monitor_stablecoin"
    /\ mpc' = "monitor_whale"
    /\ IF spc = "dead"
       THEN spc' = "init" /\ restarted' = "stablecoin"
       ELSE UNCHANGED <<spc, restarted>>
    /\ UNCHANGED <<whale_alert_threshold, snapshot, whaleVars, registryVars, probe, scan, replay,
                   last_update, keys_present, notifyVars, units>>

\* Lines 72-76, mutated: the test is dropped and the thread is never
\* replaced.
MonitorWhaleNoRestart ==
    /\ mpc = "monitor_whale"
    /\ mpc' = "sleep"
    /\ UNCHANGED <<whale_alert_threshold, snapshot, whaleVars, registryVars, probe, scan, replay,
                   stableVars, keys_present, restarted, notifyVars, units>>

\* Lines 72-76: a whale thread that is not alive is replaced.
MonitorWhale ==
    /\ mpc = "monitor_whale"
    /\ mpc' = "sleep"
    /\ IF wpc = "dead"
       THEN wpc' = "init" /\ restarted' = "whale"
       ELSE UNCHANGED <<wpc, restarted>>
    /\ UNCHANGED <<whale_alert_threshold, snapshot, registryVars, probe, scan, replay, stableVars,
                   keys_present, whale_addresses, last_checked_block, chainIdx,
                   whaleIdx, remaining, current_block, passHistory, notifyVars, units>>

\* Lines 78-82: the status line, and the hour of sleep is over.
MainSleep ==
    /\ mpc = "sleep"
    /\ mpc' = "monitor_stablecoin"
    /\ restarted' = "none"
    /\ UNCHANGED <<whale_alert_threshold, snapshot, whaleVars, registryVars, probe, scan, replay,
                   stableVars, keys_present, notifyVars, units>>

\* run_stablecoin_tracker up to the loop of stablecoin_tracker.main: the
\* import (load_config at stablecoin_tracker.py:37 raises without
\* config.yaml) and StablecoinTracker() (line 370).
ConstructStablecoin ==
    /\ spc = "init"
    /\ \/ spc' = "loop" /\ last_update' = FALSE
       \/ spc' = "dead" /\ UNCHANGED last_update
    /\ UNCHANGED <<whale_alert_threshold, snapshot, whaleVars, registryVars, probe, scan, replay,
                   mainVars, notifyVars, units>>

\* stablecoin_tracker.py:375 and 342-345: track_stablecoins is entered.
TrackStablecoins ==
    /\ spc = "loop"
    /\ spc' = "track"
    /\ UNCHANGED <<whale_alert_threshold, snapshot, whaleVars, registryVars, probe, scan, replay,
                   last_update, mainVars, notifyVars, units>>

\* Lines 348 and 353-367: _save_results sets last_update, or logs the
\* exception that kept it from doing so; track_stablecoins returns either
\* way (350-351).
SaveResults ==
    /\ spc = "track"
    /\ spc' = "sleep"
    /\ last_update' \in {TRUE, last_update}
    /\ UNCHANGED <<whale_alert_threshold, snapshot, whaleVars, registryVars, probe, scan, replay,
                   mainVars, notifyVars, units>>

\* Line 376: the 15 minutes between updates are over.
StablecoinSleep ==
    /\ spc = "sleep"
    /\ spc' = "loop"
    /\ UNCHANGED <<whale_alert_threshold, snapshot, whaleVars, registryVars, probe, scan, replay,
                   last_update, mainVars, notifyVars, units>>

\* What the explorer and the snapshot file hold while the threads run.
MainSnapshots ==
    {s \in ReloadSnapshots :
        s.kind = "missing" \/ (Len(s.rows) = 1 /\ s.rows[1].address = "a1")}
MainBlockReplies == {r \in BlockReplies : r.kind \in {"hex", "network"} /\ r.h <= Lookback}
MainTxs ==
    {tx \in RawTxs : /\ tx.to \in {TokenContract("usdt", c) : c \in ChainSet}
                     /\ tx.value # "nonzero" /\ tx.input = "ok"
                     /\ tx.word \in {DefaultWord, [m |-> MaxMant, e |-> 6]}}

WhaleThread ==
    \/ Construct(MainSnapshots)
    \/ StartPass
    \/ CheckChain(MainBlockReplies)
    \/ FetchAddress(TxReplies)
    \/ ProcessRecord(MainTxs)
    \/ Reload(MainSnapshots)
    \/ Sleep
    \/ Recover

StablecoinThread ==
    \/ ConstructStablecoin
    \/ TrackStablecoins
    \/ SaveResults
    \/ StablecoinSleep

MainThread ==
    \/ CheckApiKeys
    \/ StartThreads
    \/ MonitorStablecoin
    \/ MonitorWhale
    \/ MainSleep

InitMain ==
    /\ whale_alert_threshold = MaxThreshold
    /\ snapshot = [kind |-> "missing", rows |-> NoRows]
    /\ wpc = "unstarted"
    /\ NoTracker
    /\ RegistryAtRest
    /\ probe = NoProbe
    /\ scan = NoScan
    /\ replay = NoReplay
    /\ NotifyAtRest
    /\ units = NoUnits
    /\ StableAtRest
    /\ mpc = "check"
    /\ keys_present \in SUBSET RequiredKeys
    /\ restarted = "none"

NextMain == WhaleThread \/ StablecoinThread \/ MainThread

\* Each thread is scheduled again and again, and every sleep ends.
SpecMain ==
    /\ InitMain
    /\ [][NextMain]_vars
    /\ WF_vars(WhaleThread)
    /\ WF_vars(StablecoinThread)
    /\ WF_vars(MainThread)

(***************************************************************************)
(* The drivers and their supervisor (claims C9 and C10), under SpecMain.   *)
(***************************************************************************)
\* The driver loops: whale_tracker.main from line 245 on,
\* stablecoin_tracker.main from line 373 on.
WhaleDriving == wpc \in {"loop", "chain", "whale", "tx", "reload", "sleep", "except"}
StablecoinDriving == spc \in {"loop", "track", "sleep"}

C9_NoEscapeStep ==
    /\ WhaleDriving => wpc' # "dead"
    /\ StablecoinDriving => spc' # "dead"

\* C9: no step taken inside a driver loop ends the driver's thread, and
\* after every pass (completed, at the reload, or failed, in the handler;
\* track_stablecoins returned) the driver eventually is in a pass again.
C9_DriversKeepPassing ==
    /\ [][C9_NoEscapeStep]_vars
    /\ (wpc = "reload") ~> InPass
    /\ (wpc = "except") ~> InPass
    /\ (spc = "sleep") ~> (spc = "track")

\* A record has raised in check_whale_transactions and main's handler has
\* the exception, and _save_results has failed inside track_stablecoins;
\* both threads are alive.
C9_Witness ==
    /\ wpc = "except"
    /\ spc = "sleep" /\ last_update = FALSE
    /\ mpc = "sleep"

\* A step that is not main's (main moves at each of its steps).
C10_IndependentStep ==
    /\ mpc' = mpc /\ wpc' # wpc => UNCHANGED stableVars
    /\ mpc' = mpc /\ spc' # spc =>
          UNCHANGED <<wpc, whale_addresses, last_checked_block, chainIdx, whaleIdx,
                      remaining, current_block>>
    /\ wpc' = "dead" => (wpc = "init" \/ wpc = "dead")
    /\ spc' = "dead" => (spc = "init" \/ spc = "dead")

\* C10: a step of one tracker, its death included, changes nothing of the
\* other; a tracker only dies while it is being constructed; a dead tracker
\* is restarted; and with the other tracker dead, each tracker still gets
\* from the end of one pass into the next.
C10_IndependentAndRestarted ==
    /\ [][C10_IndependentStep]_vars
    /\ (wpc = "dead") ~> (wpc = "init")
    /\ (spc = "dead") ~> (spc = "init")
    /\ (wpc = "dead" /\ spc = "sleep") ~> (spc = "track")
    /\ (spc = "dead" /\ PassOver) ~> InPass

\* The supervisor has just restarted the whale tracker, whose constructor
\* has since succeeded, while the stablecoin tracker is in a pass.
C10_Witness ==
    /\ restarted = "whale"
    /\ wpc = "loop"
    /\ spc = "track"

(***************************************************************************)
(* SpecScan: the supply scan of one token.  For each chain in turn,        *)
(* get_large_transactions (stablecoin_tracker.py:104-133) fetches its      *)
(* pages through get_transactions_page (68-102), one step per delay,       *)
(* request and response; the scanner then hands every transfer returned    *)
(* to format_large_transaction (224-230), that is to update_whale_data,    *)
(* a transfer that cannot be recorded being logged and skipped.            *)
(*   scan.events  : the delays, requests and responses so far              *)
(*   scan.kinds   : for each response, its chain, its kind and whether     *)
(*                  all its records carry a number                         *)
(*   scan.fetches : all_transactions (line 116) of each chain done         *)
(*   scan.results : what get_large_transactions returned for it            *)
(***************************************************************************)
\* Line 110: range(1, 3).
LastPage == 2

scanChain == Chains[scan.chainIdx]

WellFormed(txs) == \A i \in DOMAIN txs : txs[i].value # None

\* The scanner takes up a token.
StartScan(tokens) ==
    /\ scan.pc = "idle"
    /\ \E token_name \in tokens :
          scan' = [NoScan EXCEPT !.pc = "delay", !.token = token_name]
    /\ UNCHANGED <<whale_alert_threshold, snapshot, whaleVars, registryVars, probe, replay,
                   stableVars, mainVars, notifyVars, units>>

\* get_transactions_page without line 87.
RateLimitDelaySkipped ==
    /\ scan.pc = "delay"
    /\ scan' = [scan EXCEPT !.pc = "request"]
    /\ UNCHANGED <<whale_alert_threshold, snapshot, whaleVars, registryVars, probe, replay,
                   stableVars, mainVars, notifyVars, units>>

\* Line 87: time.sleep(CONFIG['rate_limits'][chain]).
RateLimitDelay ==
    /\ scan.pc = "delay"
    /\ scan' = [scan EXCEPT !.pc = "request",
                            !.events = Append(@, <<"delay", scanChain, scan.page>>)]
    /\ UNCHANGED <<whale_alert_threshold, snapshot, whaleVars, registryVars, probe, replay,
                   stableVars, mainVars, notifyVars, units>>

\* Line 90: requests.get is called.
SendRequest ==
    /\ scan.pc = "request"
    /\ scan' = [scan EXCEPT !.pc = "response",
                            !.events = Append(@, <<"request", scanChain, scan.page>>)]
    /\ UNCHANGED <<whale_alert_threshold, snapshot, whaleVars, registryVars, probe, replay,
                   stableVars, mainVars, notifyVars, units>>

\* Lines 90-102 and 111-114: the call returns or raises, the page's records
\* are appended, and the loop of line 110 moves on.
ReceivePage(replies) ==
    /\ scan.pc = "response"
    /\ \E reply \in replies :
          LET transactions == GetTransactionsPage(reply) IN
          scan' = [scan EXCEPT
                      !.events = Append(@, <<"return", scanChain, scan.page>>),
                      !.kinds = Append(@, [chainIdx |-> scan.chainIdx,
                                            kind |-> reply.kind,
                                            wellformed |-> WellFormed(reply.txs)]),
                      !.all = @ \o transactions,
                      !.page = IF scan.page < LastPage THEN @ + 1 ELSE @,
                      !.pc = IF scan.page < LastPage THEN "delay" ELSE "filter"]
    /\ UNCHANGED <<whale_alert_threshold, snapshot, whaleVars, registryVars, probe, replay,
                   stableVars, mainVars, notifyVars, units>>

\* Lines 116-133: the filter, the sort and the cut.
FilterLarge ==
    /\ scan.pc = "filter"
    /\ scan' = [scan EXCEPT
                   !.pc = "returned",
                   !.fetches = Append(@, scan.all),
                   !.results = Append(@, LargeTransactions(scan.all, large_tx_threshold))]
    /\ UNCHANGED <<whale_alert_threshold, snapshot, whaleVars, registryVars, probe, replay,
                   stableVars, mainVars, notifyVars, units>>

\* update_whale_data for each transfer in turn; one whose timeStamp is no
\* integer raises at line 164, before anything is written, and is skipped.
RECURSIVE RecordEach(_, _, _, _, _)
RecordEach(data, txs, c, token_name, max_txs) ==
    IF txs = <<>> THEN data
    ELSE RecordEach(IF Head(txs).timeStamp = None THEN data
                    ELSE UpdateWhaleData(data, Head(txs), c, token_name, max_txs),
                    Tail(txs), c, token_name, max_txs)

\* The scanner records what get_large_transactions returned and goes on to
\* the next chain.
RecordLarge ==
    /\ scan.pc = "returned"
    /\ LET large == scan.results[Len(scan.results)] IN
       whale_file' =
           IF \A i \in DOMAIN large : large[i].timeStamp = None THEN whale_file
           ELSE SaveWhaleData(RecordEach(LoadWhaleData(whale_file), large, scanChain,
                                         scan.token, max_transactions_per_address))
    /\ everPersisted' = everPersisted \cup DOMAIN whale_file'.data
    /\ scan' = IF scan.chainIdx < Len(Chains)
               THEN [scan EXCEPT !.pc = "delay", !.chainIdx = @ + 1, !.page = 1,
                                 !.all = <<>>]
               ELSE [scan EXCEPT !.pc = "done"]
    /\ UNCHANGED <<whale_alert_threshold, snapshot, whaleVars, probe, replay, stableVars,
                   mainVars, max_transactions_per_address, large_tx_threshold,
                   recorded, lastUpdate, notifyVars, units>>

\* Records of the scanned contract (6 decimals): amounts equal to the
\* threshold and far above it, and a value that is no number.
ScanTxs ==
    TokenTxs({"a1"}, {"a2"},
             {None, Some([m |-> MaxThreshold, e |-> 6]), Some([m |-> 1, e |-> 18])},
             {6}, {Some(1)}, {0})
      \cup TokenTxs({"a2"}, {"a1"}, {Some([m |-> 1, e |-> 18])}, {6}, {Some(1)}, {0})

\* The replies to a page request: a page of records, a network error, an
\* API error without a result, an API error that carries records.
ScanReplies ==
    {[kind |-> "ok", txs |-> l] :
        l \in UNION {[1 .. n -> ScanTxs] : n \in 0 .. MaxPage}}
      \cup {[kind |-> k, txs |-> <<>>] : k \in {"error", "network"}}
      \cup {[kind |-> "error", txs |-> <<tx>>] :
               tx \in TokenTxs({"a2"}, {"a1"}, {Some([m |-> 1, e |-> 18])}, {6},
                               {Some(1)}, {0})}

InitScan ==
    /\ whale_alert_threshold = MaxThreshold
    /\ snapshot = [kind |-> "missing", rows |-> NoRows]
    /\ WhaleInit
    /\ max_transactions_per_address = MaxKept
    /\ large_tx_threshold = MaxThreshold
    /\ whale_file = NoFile
    /\ recorded = 0
    /\ lastUpdate = NoUpdate
    /\ everPersisted = {}
    /\ probe = NoProbe
    /\ scan = NoScan
    /\ replay = NoReplay
    /\ NotifyAtRest
    /\ units = NoUnits
    /\ StableAtRest
    /\ MainAtRest

NextScan ==
    \/ StartScan({"usdt"})
    \/ RateLimitDelay
    \/ SendRequest
    \/ ReceivePage(ScanReplies)
    \/ FilterLarge
    \/ RecordLarge

SpecScan == InitScan /\ [][NextScan]_vars

(***************************************************************************)
(* One chain failing (claim C11), under SpecScan.                          *)
(***************************************************************************)
\* The responses of a chain were all pages of well-formed records; they
\* were all failures (an error, or a record that is no transfer).
PagesSucceeded(idx) ==
    \A i \in DOMAIN scan.kinds :
        scan.kinds[i].chainIdx = idx =>
            scan.kinds[i].kind = "ok" /\ scan.kinds[i].wellformed
PagesFailed(idx) ==
    \A i \in DOMAIN scan.kinds :
        scan.kinds[i].chainIdx = idx =>
            scan.kinds[i].kind # "ok" \/ ~scan.kinds[i].wellformed

LargeFetched(idx) ==
    {i \in DOMAIN scan.fetches[idx] :
        Exceeds(Get(scan.fetches[idx][i].value), scan.fetches[idx][i].tokenDecimal,
                large_tx_threshold)}

TotalTransactions(a) ==
    IF a \in DOMAIN whale_file.data THEN whale_file.data[a].total_transactions ELSE 0

\* C11: when the scan of a token is over, every page of ethereum having
\* been fetched and every page of bsc having failed, the bsc result is
\* empty, the ethereum result holds the fetched transfers above the
\* threshold and nothing else, and the registry counts each of them once
\* for its sender and once for its receiver.
C11_BscFailureIsolated ==
    scan.pc = "done" /\ PagesSucceeded(1) /\ PagesFailed(2) =>
        /\ scan.results[2] = <<>>
        /\ Len(scan.results[1]) = Cardinality(LargeFetched(1))
        /\ \A j \in DOMAIN scan.results[1] :
              \E i \in LargeFetched(1) : scan.fetches[1][i] = scan.results[1][j]
        /\ \A a \in Addresses :
              TotalTransactions(a) =
                  Cardinality({j \in DOMAIN scan.results[1] : scan.results[1][j].from = a})
                  + Cardinality({j \in DOMAIN scan.results[1] : scan.results[1][j].to = a})

\* Such a scan is over: bsc answered with an API error that carried
\* records, and two ethereum transfers are in the registry.
C11_Witness ==
    /\ scan.pc = "done" /\ PagesSucceeded(1) /\ PagesFailed(2)
    /\ \E i \in DOMAIN scan.kinds :
          scan.kinds[i].chainIdx = 2 /\ scan.kinds[i].kind = "error"
    /\ Len(scan.results[1]) = 2
    /\ TotalTransactions("a1") = 2

(***************************************************************************)
(* SpecReplay: a sequence of transfers goes through update_whale_data,     *)
(* and then the same sequence once more, from a registry file that is      *)
(* missing, unreadable, or holds an earlier transfer.                      *)
(*   replay.txs  : the calls of the sequence (transfer, chain, token)      *)
(*   replay.base, replay.once, replay.twice : the registry before the      *)
(*                 sequence, after it, and after its repetition            *)
(***************************************************************************)
\* Transfers of one sequence.
MaxReplay == 2

CorruptFile == [kind |-> "corrupt", data |-> EmptyData]

ReplayTxs == {t \in RegistryTxs : t.timeStamp # None}

EarlierTransfer ==
    [from |-> "a1", to |-> "a2", value |-> Some([m |-> 1, e |-> 6]), tokenDecimal |-> 6,
     timeStamp |-> Some(1), hash |-> 0]

BaseFiles(max_txs) ==
    {NoFile, CorruptFile,
     SaveWhaleData(UpdateWhaleData(EmptyData, EarlierTransfer, "bsc", "dai", max_txs))}

\* One more call of the sequence: update_whale_data(tx, chain, token_name).
ReplayTransfer(txs) ==
    /\ replay.phase = "first"
    /\ Len(replay.txs) < MaxReplay
    /\ \E t \in txs, c \in ChainSet, token_name \in Tokens :
          LET tx == [t EXCEPT !.hash = Len(replay.txs) + 1] IN
          /\ whale_file' = SaveWhaleData(
                 UpdateWhaleData(LoadWhaleData(whale_file), tx, c, token_name,
                                 max_transactions_per_address))
          /\ replay' = [replay EXCEPT
                           !.txs = Append(@, [tx |-> tx, chain |-> c, token |-> token_name])]
    /\ everPersisted' = everPersisted \cup DOMAIN whale_file'.data
    /\ UNCHANGED <<whale_alert_threshold, snapshot, whaleVars, probe, scan, stableVars,
                   mainVars, max_transactions_per_address, large_tx_threshold,
                   recorded, lastUpdate, notifyVars, units>>

\* The next call of the repetition, with the transfer, chain and token of
\* the first time.
ReplayAgain ==
    /\ replay.phase \in {"first", "second"}
    /\ replay.txs # <<>>
    /\ LET call == replay.txs[replay.next]
           data == LoadWhaleData(whale_file)
           after == UpdateWhaleData(data, call.tx, call.chain, call.token,
                                    max_transactions_per_address)
       IN /\ whale_file' = SaveWhaleData(after)
          /\ replay' = [replay EXCEPT
                           !.once = IF replay.phase = "first" THEN data ELSE @,
                           !.twice = after,
                           !.next = @ + 1,
                           !.phase = IF replay.next = Len(replay.txs)
                                     THEN "done" ELSE "second"]
    /\ everPersisted' = everPersisted \cup DOMAIN whale_file'.data
    /\ UNCHANGED <<whale_alert_threshold, snapshot, whaleVars, probe, scan, stableVars,
                   mainVars, max_transactions_per_address, large_tx_threshold,
                   recorded, lastUpdate, notifyVars, units>>

InitReplay ==
    /\ whale_alert_threshold = MaxThreshold
    /\ snapshot = [kind |-> "missing", rows |-> NoRows]
    /\ WhaleInit
    /\ max_transactions_per_address \in 0 .. MaxKept
    /\ large_tx_threshold = MaxThreshold
    /\ whale_file \in BaseFiles(max_transactions_per_address)
    /\ recorded = 0
    /\ lastUpdate = NoUpdate
    /\ everPersisted = DOMAIN whale_file.data
    /\ probe = NoProbe
    /\ scan = NoScan
    /\ replay = [NoReplay EXCEPT !.base = LoadWhaleData(whale_file)]
    /\ NotifyAtRest
    /\ units = NoUnits
    /\ StableAtRest
    /\ MainAtRest

NextReplay == ReplayTransfer(ReplayTxs) \/ ReplayAgain

SpecReplay == InitReplay /\ [][NextReplay]_vars

TotalIn(data, a) == IF a \in DOMAIN data THEN data[a].total_transactions ELSE 0

\* The times an address is sender, and receiver, in the sequence.
TimesInvolved(a) ==
    Cardinality({i \in DOMAIN replay.txs : replay.txs[i].tx.from = a})
        + Cardinality({i \in DOMAIN replay.txs : replay.txs[i].tx.to = a})

\* C12: after a sequence of transfers has been recorded a second time, each
\* address of the sequence has gained, each time, one transaction per
\* appearance as sender or receiver (none was dropped as a duplicate), its
\* chains and tokens are those it had after the first time, and so is the
\* last entry of its list.
C12_ReplayCountsTwice ==
    replay.phase = "done" =>
        \A a \in Addresses :
            TimesInvolved(a) > 0 =>
                /\ TotalIn(replay.once, a) - TotalIn(replay.base, a) = TimesInvolved(a)
                /\ TotalIn(replay.twice, a) - TotalIn(replay.base, a)
                       = 2 * (TotalIn(replay.once, a) - TotalIn(replay.base, a))
                /\ replay.twice[a].chains = replay.once[a].chains
                /\ replay.twice[a].tokens = replay.once[a].tokens
                /\ replay.twice[a].transactions[Len(replay.twice[a].transactions)]
                       = replay.once[a].transactions[Len(replay.once[a].transactions)]

\* Two transfers were recorded twice over on top of an earlier registry.
C12_Witness ==
    /\ replay.phase = "done"
    /\ Len(replay.txs) = 2
    /\ "a1" \in DOMAIN replay.base
    /\ TotalIn(replay.twice, "a1") > TotalIn(replay.once, "a1")

(***************************************************************************)
(* SpecPersist: calls of update_whale_data, in some of which the process   *)
(* ends inside save_whale_data (stablecoin_tracker.py:152-156).  The file  *)
(* is then what it was (open(..., 'w') not yet reached), empty or a prefix *)
(* of the document (the file emptied by open, json.dump not through),      *)
(* which json.load cannot parse, or the whole new document.  probe keeps   *)
(* the registry loaded and the registry handed to save_whale_data.         *)
(***************************************************************************)
SaveInterrupted(txs) ==
    /\ recorded < MaxRecorded
    /\ \E t \in txs, c \in ChainSet, token_name \in Tokens :
          LET tx == [t EXCEPT !.hash = recorded + 1]
              data == LoadWhaleData(whale_file)
              whale_data == UpdateWhaleData(data, tx, c, token_name,
                                            max_transactions_per_address)
          IN /\ tx.value # None /\ tx.timeStamp # None
             /\ whale_file' \in {whale_file, CorruptFile, SaveWhaleData(whale_data)}
             /\ probe' = [NoProbe EXCEPT !.kind = "crash", !.all = <<data>>,
                                         !.result = <<whale_data>>]
    /\ lastUpdate' = NoUpdate
    /\ recorded' = recorded + 1
    /\ everPersisted' = everPersisted \cup DOMAIN whale_file'.data
    /\ UNCHANGED <<whale_alert_threshold, snapshot, whaleVars, scan, replay,
                   stableVars, mainVars, max_transactions_per_address,
                   large_tx_threshold, notifyVars, units>>

InitPersist ==
    /\ whale_alert_threshold = MaxThreshold
    /\ snapshot = [kind |-> "missing", rows |-> NoRows]
    /\ WhaleInit
    /\ max_transactions_per_address = MaxKept
    /\ large_tx_threshold = MaxThreshold
    /\ whale_file = NoFile
    /\ recorded = 0
    /\ lastUpdate = NoUpdate
    /\ everPersisted = {}
    /\ probe = NoProbe
    /\ scan = NoScan
    /\ replay = NoReplay
    /\ NotifyAtRest
    /\ units = NoUnits
    /\ StableAtRest
    /\ MainAtRest

NextPersist == RecordTransfer(RegistryTxs) \/ SaveInterrupted(RegistryTxs)

SpecPersist == InitPersist /\ [][NextPersist]_vars

\* C13: the sender and the receiver of a recorded transfer have a record,
\* and a registry file that can be read holds every address the file has
\* ever held.
C13_RecordsNeverRemoved ==
    /\ lastUpdate.done => {lastUpdate.from, lastUpdate.to} \subseteq DOMAIN whale_file.data
    /\ whale_file.kind = "ok" => everPersisted \subseteq DOMAIN whale_file.data

(***************************************************************************)
(* SpecExport: export_whale_summary_to_csv (stablecoin_tracker.py:288-319) *)
(* over registries that update_whale_data has built.  The amounts are      *)
(* whole tokens (x >= 0), for which the float of an amount and the float   *)
(* of a sum are the integers themselves.                                   *)
(***************************************************************************)
ExportAddresses == {"a1", "a2", "a3"}

\* The float of a whole-token amount.
Whole(a) == a.m * Pow10(a.x)

\* Line 301: sum(tx['amount'] for tx in transactions).
RECURSIVE SumAmounts(_)
SumAmounts(list) ==
    IF list = <<>> THEN 0
    ELSE SumAmounts(SubSeq(list, 1, Len(list) - 1)) + Whole(list[Len(list)].amount)

\* Line 302: total_volume / len(transactions) if transactions else 0, kept
\* as the fraction num / den.
AvgTxSize(total_volume, transactions) ==
    IF transactions # <<>> THEN [num |-> total_volume, den |-> Len(transactions)]
    ELSE [num |-> 0, den |-> 1]

\* Lines 304-312: the row of one address.
SummaryRow(address, data) ==
    [address |-> address,
     total_transactions |-> data.total_transactions,
     chains |-> data.chains,
     volume |-> SumAmounts(data.transactions),
     average |-> AvgTxSize(SumAmounts(data.transactions), data.transactions)]

\* Lines 299-312: one row per address, in the order of whale_data.items().
SummaryData(whale_data, order) ==
    [i \in DOMAIN order |-> SummaryRow(order[i], whale_data[order[i]])]

\* pandas' sort_values on 'Total Volume (USD)': rows of equal volume keep
\* the order they had.
Before(a, b, ascending) == IF ascending THEN a.volume < b.volume ELSE a.volume > b.volume

InsertRow(sorted, row, ascending) ==
    LET n == Cardinality({i \in DOMAIN sorted : ~Before(row, sorted[i], ascending)})
    IN SubSeq(sorted, 1, n) \o <<row>> \o SubSeq(sorted, n + 1, Len(sorted))

RECURSIVE SortRows(_, _)
SortRows(rows, ascending) ==
    IF rows = <<>> THEN <<>>
    ELSE InsertRow(SortRows(SubSeq(rows, 1, Len(rows) - 1), ascending), rows[Len(rows)],
                   ascending)

\* Line 316, mutated: ascending=True.
SortValuesAscending(rows) == SortRows(rows, TRUE)

\* Line 316: df.sort_values('Total Volume (USD)', ascending=False).
SortValues(rows) == SortRows(rows, FALSE)

\* The orders in which a dictionary with these keys can list them.
Orderings(keys) ==
    {f \in [1 .. Cardinality(keys) -> keys] : \A i, j \in DOMAIN f : i # j => f[i] # f[j]}

\* export_whale_summary_to_csv: nothing is written for an empty registry
\* (lines 291-292); otherwise the sorted rows replace whale_summary.csv.
ExportWhaleSummaryToCsv ==
    /\ probe = NoProbe
    /\ LET whale_data == LoadWhaleData(whale_file)
       IN IF DOMAIN whale_data = {}
          THEN /\ probe' = [NoProbe EXCEPT !.kind = "export", !.outcome = "none"]
               /\ UNCHANGED snapshot
          ELSE \E order \in Orderings(DOMAIN whale_data) :
                  LET summary_data == SummaryData(whale_data, order)
                  IN /\ probe' = [NoProbe EXCEPT !.kind = "export", !.outcome = "written",
                                                 !.all = summary_data,
                                                 !.result = SortValues(summary_data)]
                     /\ snapshot' = [kind |-> "ok", rows |-> SortValues(summary_data)]
    /\ UNCHANGED <<whale_alert_threshold, whaleVars, registryVars, scan, replay,
                   stableVars, mainVars, notifyVars, units>>

\* update_whale_data, until the summary is exported.
RecordBeforeExport(txs) == probe = NoProbe /\ RecordTransfer(txs)

ExportTxs ==
    TokenTxs({"a1"}, ExportAddresses \ {"a1"},
             {Some([m |-> 1, e |-> 8]), Some([m |-> 2, e |-> 8])},
             {6}, {Some(1)}, {0})

NextExport == RecordBeforeExport(ExportTxs) \/ ExportWhaleSummaryToCsv

SpecExport == InitPersist /\ [][NextExport]_vars

\* C14: the rows of whale_summary.csv are in non-increasing order of total
\* volume; they are the rows of the registry's addresses, each with the sum
\* of the amounts of its retained transactions as total volume and that sum
\* over the number of retained transactions as average (0 when there are
\* none).
C14_RowsByVolumeDescending ==
    probe.kind = "export" /\ probe.outcome = "written" =>
        LET rows == snapshot.rows
        IN /\ \A i, j \in DOMAIN rows : i < j => rows[i].volume >= rows[j].volume
           /\ Len(rows) = Cardinality(DOMAIN whale_file.data)
           /\ \A a \in DOMAIN whale_file.data : \E i \in DOMAIN rows :
                 LET kept == whale_file.data[a].transactions
                 IN /\ rows[i].address = a
                    /\ Len(kept) <= max_transactions_per_address
                    /\ rows[i].volume = SumAmounts(kept)
                    /\ rows[i].average.num
                         = (IF kept = <<>> THEN 0 ELSE SumAmounts(kept))
                    /\ kept # <<>> => rows[i].average.den = Len(kept)

\* C14: the registry listed volumes 300, 100, 200, and the rows written are
\* 300, 200, 100.
C14_Witness ==
    /\ probe.kind = "export" /\ probe.outcome = "written"
    /\ [i \in DOMAIN probe.all |-> probe.all[i].volume] = <<300, 100, 200>>
    /\ [i \in DOMAIN snapshot.rows |-> snapshot.rows[i].volume] = <<300, 200, 100>>

(***************************************************************************)
(* SpecDecode: the decoding of lines 165-178 applied to one raw record.    *)
(* Line 174 divides two Python integers with /, which gives the double     *)
(* nearest to the quotient.  The quotient m * 10^x is itself a double when *)
(* it is a whole number (below 2^53 here), and for x < 0 only when 5^(-x)  *)
(* divides m, as a double's denominator is a power of two.                 *)
(***************************************************************************)
RECURSIVE Pow5(_)
Pow5(k) == IF k = 0 THEN 1 ELSE 5 * Pow5(k - 1)

\* value / (10 ** decimals) is the quotient itself, not a rounding of it.
IsFloat(a) == a.m = 0 \/ a.x >= 0 \/ a.m % Pow5(-a.x) = 0

\* Lines 165-178 for one record: the value decoded, and whether the division
\* of line 174 rounded it.
Decode(txs) ==
    /\ probe = NoProbe
    /\ \E tx \in txs, c \in ChainSet :
          LET value == DecodeAmount(tx, c)
          IN probe' = [NoProbe EXCEPT
                          !.kind = "decode", !.chain = c, !.tx = tx,
                          !.outcome = IF value = None THEN "none"
                                      ELSE IF IsFloat(Get(value)) THEN "quotient"
                                      ELSE "rounded",
                          !.result = IF value = None THEN <<>> ELSE <<Get(value)>>]
    /\ UNCHANGED <<whale_alert_threshold, snapshot, whaleVars, registryVars, scan, replay,
                   stableVars, mainVars, notifyVars, units>>

NextDecode == Decode(RawTxs)

SpecDecode == InitClassify /\ [][NextDecode]_vars

\* C15: a record with value '0' and call data of at least 138 characters
\* sent to a tracked contract decodes to n / 10^d exactly, n being the
\* integer of the trailing word and d = 6 for USDT and USDC, 18 otherwise.
C15_DecodesExactQuotient ==
    /\ probe.kind = "decode"
    /\ probe.tx.value = "0" /\ probe.tx.input = "ok"
    /\ TrackedToken(probe.tx, probe.chain) # None
    => /\ probe.result
            = <<[m |-> probe.tx.word.m,
                 x |-> probe.tx.word.e
                         - (IF Get(TrackedToken(probe.tx, probe.chain)) \in {"usdt", "usdc"}
                            THEN 6 ELSE 18)]>>
       /\ probe.outcome = "quotient"

(***************************************************************************)
(* Malformed records (claim C16), under Spec.                              *)
(***************************************************************************)
\* C16: no record makes _process_transaction raise: the pass is never left
\* through an exception with records or addresses still to process.
C16_RecordNeverRaises == wpc # "except"

(***************************************************************************)
(* Startup without an API key (claim C17), under SpecMain.                 *)
(***************************************************************************)
\* C17: when ETHERSCAN_API_KEY or BSCSCAN_API_KEY is not set, neither
\* tracker thread is ever started, no scanner pass runs, and main ends.
C17_NoKeyNoThreads ==
    /\ [](MissingKeys(keys_present) # {}
            => /\ wpc = "unstarted" /\ spc = "unstarted"
               /\ ~InPass
               /\ mpc \in {"check", "ended"})
    /\ (MissingKeys(keys_present) # {}) ~> (mpc = "ended")

\* C17: main has ended with only the BscScan key missing.
C17_Witness ==
    /\ keys_present = {"ETHERSCAN_API_KEY"}
    /\ mpc = "ended" /\ wpc = "unstarted" /\ spc = "unstarted"

(***************************************************************************)
(* The order of the page requests (claim C18), under SpecScan.             *)
(***************************************************************************)
\* C18: every page request comes right after the rate-limit delay taken for
\* that chain and page; every request issued earlier has returned by then,
\* the one for the page before in particular; and the pages of a chain are
\* requested in increasing order.
C18_PagesOneAfterAnother ==
    LET ev == scan.events
    IN \A i \in DOMAIN ev :
          ev[i][1] = "request" =>
             /\ i > 1 /\ ev[i - 1] = <<"delay", ev[i][2], ev[i][3]>>
             /\ ev[i][3] > 1 =>
                   \E j \in 1 .. i - 1 : ev[j] = <<"return", ev[i][2], ev[i][3] - 1>>
             /\ \A j \in 1 .. i - 1 :
                   ev[j][1] = "request" =>
                      /\ \E k \in j + 1 .. i - 1 : ev[k] = <<"return", ev[j][2], ev[j][3]>>
                      /\ ev[j][2] = ev[i][2] => ev[j][3] < ev[i][3]

\* C18: page 2 of ethereum is requested after page 1 has failed.
C18_Witness ==
    /\ \E i \in DOMAIN scan.events : scan.events[i] = <<"request", "ethereum", 2>>
    /\ scan.kinds # <<>> /\ scan.kinds[1].kind # "ok"

(***************************************************************************)
(* A chain whose height is not obtained (claim C19), under Spec.           *)
(***************************************************************************)
\* The height fetch of chain c failed earlier in this pass: c comes before
\* the chain scanned last, and its cursor, unset when the pass started, is
\* still unset (line 208 sets it as soon as a height is obtained).
HeightFailedEarlier(c) ==
    /\ \E i \in 1 .. scanned - 1 : Chains[i] = c
    /\ cursorAtPassStart[c] = None
    /\ last_checked_block[c] = None

\* C19: a chain whose height fetch has just failed had no address fetched and
\* keeps its cursor; and when the pass is over, a chain with addresses whose
\* height h was obtained after the height fetch of the other chain had
\* failed has the cursor h.
C19_OnlyFailedChainSkipped ==
    /\ (scanned # 0 /\ current_block = None
          => fetched = 0 /\ fetchStarts = {} /\ cursorNow = cursorBefore)
    /\ (/\ PassOver /\ scanned # 0 /\ current_block # None
        /\ whale_addresses[scannedChain] # <<>>
        /\ \E c \in ChainSet : HeightFailedEarlier(c)
        => cursorNow = current_block)

(***************************************************************************)
(* SpecTop: the scan of SpecScan over pages long enough for more than ten  *)
(* large transfers to be fetched for a chain.                              *)
(***************************************************************************)
MaxRun == 6

Run(tx, n) == [i \in 1 .. n |-> tx]

TopTx(word) ==
    [from |-> "a1", to |-> "a2", value |-> Some(word), tokenDecimal |-> 6,
     timeStamp |-> Some(1), hash |-> 0]

\* Amounts equal to the threshold, just above it, and far above it.
AtThreshold == TopTx([m |-> MaxThreshold, e |-> 6])
JustAbove == TopTx([m |-> MaxThreshold + 1, e |-> 6])
FarAbove == TopTx([m |-> 1, e |-> 18])

\* Pages of MaxRun - 1 or no records just above the threshold, followed by
\* one record or none of another amount; a full page of the former; a
\* failure.
TopReplies ==
    {[kind |-> "ok", txs |-> Run(JustAbove, i) \o Run(tx, j)] :
        i \in {0, MaxRun - 1}, j \in {0, 1}, tx \in {AtThreshold, FarAbove}}
      \cup {[kind |-> "ok", txs |-> Run(JustAbove, MaxRun)],
            [kind |-> "network", txs |-> <<>>]}

NextTop ==
    \/ StartScan({"usdt"})
    \/ RateLimitDelay
    \/ SendRequest
    \/ ReceivePage(TopReplies)
    \/ FilterLarge
    \/ RecordLarge

SpecTop == InitScan /\ [][NextTop]_vars

\* The number of times a record occurs in a list.
Occurrences(tx, list) == Cardinality({i \in DOMAIN list : list[i] = tx})

\* C20: at most two pages are requested per chain; what a call returns is at
\* most ten of the transfers fetched, each above large_tx_threshold, in
\* non-increasing order of amount, and no fetched transfer above the
\* threshold that is left out is larger than one that is returned.
C20_TopTenLargest ==
    /\ \A c \in ChainSet :
          Cardinality({i \in DOMAIN scan.events :
                          scan.events[i][1] = "request" /\ scan.events[i][2] = c}) <= 2
    /\ \A k \in DOMAIN scan.results :
          LET all == scan.fetches[k]
              large == scan.results[k]
          IN /\ Len(large) <= 10
             /\ \A i \in DOMAIN large :
                   /\ Occurrences(large[i], large) <= Occurrences(large[i], all)
                   /\ AmountGt(Amount(large[i]), large_tx_threshold)
             /\ \A i, j \in DOMAIN large :
                   i < j => ~AmountLess(Amount(large[i]), Amount(large[j]))
             /\ \A n \in DOMAIN all :
                   /\ Occurrences(all[n], large) < Occurrences(all[n], all)
                   /\ AmountGt(Amount(all[n]), large_tx_threshold)
                   => \A i \in DOMAIN large : ~AmountLess(Amount(large[i]), Amount(all[n]))

\* C20: twelve transfers above the threshold were fetched for a chain, the
\* largest of them last; ten are returned, the largest first, and two of the
\* others are left out.
C20_Witness ==
    \E k \in DOMAIN scan.results :
        /\ Len(scan.fetches[k]) = 2 * MaxRun
        /\ \A n \in DOMAIN scan.fetches[k] :
              AmountGt(Amount(scan.fetches[k][n]), large_tx_threshold)
        /\ scan.fetches[k][2 * MaxRun] = FarAbove
        /\ Len(scan.results[k]) = 10
        /\ scan.results[k][1] = FarAbove
        /\ Occurrences(JustAbove, scan.results[k]) = 9

(***************************************************************************)
(* SpecLoad: the constructor's _load_whale_addresses (whale_tracker.py:    *)
(* 38-72) over every snapshot and threshold, rows with a total volume      *)
(* equal to the threshold included.                                        *)
(***************************************************************************)
NextLoad == Construct(Snapshots)

SpecLoad == InitClassify /\ [][NextLoad]_vars

\* C21: once the tracker is constructed, an address is among the whale
\* addresses of a chain exactly when the snapshot could be read and holds a
\* row of the address with total volume > whale_alert_threshold that lists
\* the chain; so a missing or unreadable snapshot gives no address on
\* either chain.
C21_UniverseIsSignificantRows ==
    wpc = "loop" =>
        \A c \in ChainSet, a \in Addresses :
            (\E i \in DOMAIN whale_addresses[c] : whale_addresses[c][i] = a)
              <=> /\ snapshot.kind = "ok"
                  /\ \E i \in DOMAIN snapshot.rows :
                        /\ snapshot.rows[i].address = a
                        /\ snapshot.rows[i].volume > whale_alert_threshold
                        /\ c \in snapshot.rows[i].chains

\* C21: a snapshot of two rows, one above the threshold and active on bsc
\* only, one with a volume equal to the threshold and active on ethereum:
\* the first is the only whale of bsc, and ethereum has none.
C21_Witness ==
    /\ wpc = "loop" /\ snapshot.kind = "ok" /\ Len(snapshot.rows) = 2
    /\ snapshot.rows[1].volume > whale_alert_threshold
    /\ snapshot.rows[1].chains = {"bsc"}
    /\ snapshot.rows[2].volume = whale_alert_threshold
    /\ snapshot.rows[2].chains = {"ethereum"}
    /\ whale_addresses["bsc"] = <<snapshot.rows[1].address>>
    /\ whale_addresses["ethereum"] = <<>>

(***************************************************************************)
(* A save that is cut short (claim C22), under SpecPersist.                *)
(***************************************************************************)
\* C22: after a call whose save_whale_data was cut short, load_whale_data
\* returns the registry that was loaded before the save or the registry
\* that was being saved.
C22_SaveIsAtomic ==
    probe.kind = "crash" /\ lastUpdate = NoUpdate =>
        LoadWhaleData(whale_file) \in {probe.all[1], probe.result[1]}

(***************************************************************************)
(* SpecNotify: passes of check_whale_transactions over ethereum with one   *)
(* whale address, against a chain that grows while the tracker runs.  Some *)
(* blocks hold one transfer of the whale, each like WhaleTransfer; a       *)
(* transfer is known by its block.  The txlist request of line 123 gives   *)
(* startblock and no endblock: the explorer answers with every transfer of *)
(* the address in a block >= startblock that exists when it is asked.  The *)
(* explorer of bsc is out of reach throughout (lines 204-205: continue).   *)
(***************************************************************************)
MaxMined == 3
MaxAlerts == 4

\* A transfer of MaxMant tokens to the USDT contract of ethereum.
WhaleTransfer ==
    [to |-> TokenContract("usdt", "ethereum"), value |-> "0", input |-> "ok",
     word |-> [m |-> MaxMant, e |-> 6], ts |-> "ok"]

\* The blocks of a set in increasing order (sort=asc).
RECURSIVE Ascending(_)
Ascending(blocks) ==
    IF blocks = {} THEN <<>>
    ELSE LET b == CHOOSE x \in blocks : \A y \in blocks : x <= y
         IN <<b>> \o Ascending(blocks \ {b})

\* The explorer's answer to txlist with startblock = start_block.
TxList(l, start_block) == {b \in l.blocks : b >= start_block}

\* The chain grows by one block, with or without a transfer of the whale.
Mine ==
    /\ ledger.tip < Lookback + MaxMined
    /\ \E transfer \in BOOLEAN :
          ledger' = [tip |-> ledger.tip + 1,
                     blocks |-> ledger.blocks
                                  \cup (IF transfer THEN {ledger.tip + 1} ELSE {})]
    /\ UNCHANGED <<whale_alert_threshold, snapshot, whaleVars, registryVars, probe, scan,
                   replay, alerts, stableVars, mainVars, units>>

\* Lines 203-208 for ethereum: the height, and the first cursor.
ObserveHeight ==
    /\ wpc = "loop"
    /\ Len(alerts) < MaxAlerts
    /\ wpc' = "whale"
    /\ current_block' = Some(ledger.tip)
    /\ last_checked_block' =
          [last_checked_block EXCEPT
              !["ethereum"] = IF @ = None THEN Some(InitialCursor(ledger.tip)) ELSE @]
    /\ UNCHANGED <<whale_alert_threshold, snapshot, outsideWhale, whale_addresses, chainIdx,
                   whaleIdx, remaining, passHistory>>

\* Lines 217-233 for the address: the fetch from the cursor on, a
\* notification for each record above the threshold, and the cursor set to
\* the height of line 203.
FetchAndNotify ==
    /\ wpc = "whale"
    /\ LET transactions == Ascending(TxList(ledger, Get(last_checked_block["ethereum"])))
       IN alerts' = alerts \o SelectSeq(transactions,
                                        LAMBDA b : ProcessTransaction(WhaleTransfer, "ethereum",
                                                                      whale_alert_threshold)
                                                      = "alert")
    /\ last_checked_block' =
          [last_checked_block EXCEPT
              !["ethereum"] = Some(AdvancedCursor(Get(@), Get(current_block)))]
    /\ wpc' = "loop"
    /\ UNCHANGED <<whale_alert_threshold, snapshot, registryVars, probe, scan, replay, ledger,
                   stableVars, mainVars, whale_addresses, chainIdx, whaleIdx, remaining,
                   current_block, passHistory, units>>

InitNotify ==
    /\ whale_alert_threshold = MaxThreshold
    /\ snapshot = [kind |-> "missing", rows |-> NoRows]
    /\ wpc = "loop"
    /\ whale_addresses = [NoWhales EXCEPT !["ethereum"] = <<"a1">>]
    /\ last_checked_block = NoneEach
    /\ chainIdx = 1
    /\ whaleIdx = 1
    /\ remaining = 0
    /\ current_block = None
    /\ cursorAtPassStart = NoneEach
    /\ latestAtStart = NoWhales
    /\ scanned = 0
    /\ fetchStarts = {}
    /\ fetched = 0
    /\ qualified = 0
    /\ notified = 0
    /\ finished = FALSE
    /\ RegistryAtRest
    /\ probe = NoProbe
    /\ scan = NoScan
    /\ replay = NoReplay
    /\ ledger = [tip |-> Lookback, blocks |-> {}]
    /\ alerts = <<>>
    /\ units = NoUnits
    /\ StableAtRest
    /\ MainAtRest

NextNotify == Mine \/ ObserveHeight \/ FetchAndNotify

SpecNotify == InitNotify /\ [][NextNotify]_vars

\* C23: no transfer is notified twice, in one pass or in two.
C23_NotifiedAtMostOnce ==
    \A i, j \in DOMAIN alerts : i # j => alerts[i] # alerts[j]

(***************************************************************************)
(* SpecRace: update_whale_data (stablecoin_tracker.py:158-222) called by   *)
(* the work units of the supply scanner, one per token, which run in       *)
(* parallel.  A call is three steps, and the steps of different calls      *)
(* interleave freely: update_whale_data takes no lock.                     *)
(***************************************************************************)
\* The scanner hands each work unit one large transfer of its token.
StartUnits(txs) ==
    /\ \A t \in Tokens : units[t].pc = "idle"
    /\ \E given \in [Tokens -> txs] :
          units' = [t \in Tokens |-> [pc |-> "load", tx |-> given[t], data |-> EmptyData]]
    /\ UNCHANGED <<whale_alert_threshold, snapshot, whaleVars, registryVars, probe, scan,
                   replay, notifyVars, stableVars, mainVars>>

\* Line 160: whale_data = load_whale_data().
LoadStep(t) ==
    /\ units[t].pc = "load"
    /\ units' = [units EXCEPT ![t].pc = "modify", ![t].data = LoadWhaleData(whale_file)]
    /\ UNCHANGED <<whale_alert_threshold, snapshot, whaleVars, registryVars, probe, scan,
                   replay, notifyVars, stableVars, mainVars>>

\* Lines 162-219: the records of the sender and the receiver are brought up
\* to date in the unit's own dictionary.
ModifyStep(t) ==
    /\ units[t].pc = "modify"
    /\ units' = [units EXCEPT
                    ![t].pc = "save",
                    ![t].data = UpdateWhaleData(@, units[t].tx, "ethereum", t,
                                                max_transactions_per_address)]
    /\ UNCHANGED <<whale_alert_threshold, snapshot, whaleVars, registryVars, probe, scan,
                   replay, notifyVars, stableVars, mainVars>>

\* Line 222: save_whale_data(whale_data).
SaveStep(t) ==
    /\ units[t].pc = "save"
    /\ units' = [units EXCEPT ![t].pc = "done"]
    /\ whale_file' = SaveWhaleData(units[t].data)
    /\ everPersisted' = everPersisted \cup DOMAIN units[t].data
    /\ UNCHANGED <<whale_alert_threshold, snapshot, whaleVars, probe, scan, replay,
                   notifyVars, stableVars, mainVars, max_transactions_per_address,
                   large_tx_threshold, recorded, lastUpdate>>

RaceTxs == {tx \in RegistryTxs : tx.timeStamp # None}

NextRace ==
    \/ StartUnits(RaceTxs)
    \/ \E t \in Tokens : LoadStep(t) \/ ModifyStep(t) \/ SaveStep(t)

SpecRace == InitPersist /\ [][NextRace]_vars

\* The times an address is sender, and receiver, of the units' transfers.
TimesGiven(a) ==
    Cardinality({t \in Tokens : units[t].tx.from = a})
        + Cardinality({t \in Tokens : units[t].tx.to = a})

\* C24: when every work unit has finished its call, the registry holds, for
\* each address, as many transactions as the units' transfers have it as
\* sender or receiver.
C24_NoUpdateLost ==
    (\A t \in Tokens : units[t].pc = "done")
        => \A a \in Addresses : TotalIn(LoadWhaleData(whale_file), a) = TimesGiven(a)

(***************************************************************************)
(* What one call changes (claim C25), under SpecRegistry.  A step that     *)
(* completes a call takes the registry from LoadWhaleData(whale_file) to   *)
(* whale_file'.data; the transfer has the hash recorded'.                  *)
(***************************************************************************)
IsSuffix(k, l) == Len(k) <= Len(l) /\ k = SubSeq(l, Len(l) - Len(k) + 1, Len(l))

Transactions(data, a) == IF a \in DOMAIN data THEN data[a].transactions ELSE <<>>

IsEntry(entry, type, hash) == entry.type = type /\ entry.tx_hash = hash

Least(a, b) == IF a < b THEN a ELSE b

\* The records of the addresses other than s and r are what they were, and
\* s and r have a record.
OthersUnchanged(before, after, s, r) ==
    /\ DOMAIN after = DOMAIN before \cup {s, r}
    /\ \A a \in DOMAIN before \ {s, r} : after[a] = before[a]

\* The list of a ends with the one entry of the call, of the given type,
\* which follows entries the list had before.
OneAppended(before, after, a, type, hash) ==
    LET kept == after[a].transactions
    IN /\ TotalIn(after, a) = TotalIn(before, a) + 1
       /\ kept # <<>>
       /\ IsEntry(kept[Len(kept)], type, hash)
       /\ IsSuffix(SubSeq(kept, 1, Len(kept) - 1), Transactions(before, a))

\* The list of a ends with the two entries of the call, 'send' then
\* 'receive', which follow entries the list had before.
BothAppended(before, after, a, hash) ==
    LET kept == after[a].transactions
    IN /\ TotalIn(after, a) = TotalIn(before, a) + 2
       /\ Len(kept) >= 2
       /\ IsEntry(kept[Len(kept) - 1], "send", hash)
       /\ IsEntry(kept[Len(kept)], "receive", hash)
       /\ IsSuffix(SubSeq(kept, 1, Len(kept) - 2), Transactions(before, a))

\* As BothAppended, but the list may have been cut to its last
\* max_transactions_per_address entries: with a maximum of 1 it holds the
\* 'receive' entry alone.
BothAppendedThenCut(before, after, a, hash) ==
    LET kept == after[a].transactions
    IN /\ TotalIn(after, a) = TotalIn(before, a) + 2
       /\ Len(kept) >= Least(Len(Transactions(before, a)) + 2, max_transactions_per_address)
       /\ \/ /\ Len(kept) >= 2
             /\ IsEntry(kept[Len(kept) - 1], "send", hash)
             /\ IsEntry(kept[Len(kept)], "receive", hash)
             /\ IsSuffix(SubSeq(kept, 1, Len(kept) - 2), Transactions(before, a))
          \/ /\ Len(kept) = 1
             /\ max_transactions_per_address = 1
             /\ IsEntry(kept[1], "receive", hash)

CallCompleted == lastUpdate'.done /\ recorded' = recorded + 1

\* C25: a call for a transfer from s to r leaves every other record as it
\* was; with s # r the record of s gains one transaction and its 'send'
\* entry and the record of r one transaction and its 'receive' entry; with
\* s = r the one record gains two transactions and both entries.
C25_Step ==
    CallCompleted =>
        LET before == LoadWhaleData(whale_file)
            after == whale_file'.data
            s == lastUpdate'.from
            r == lastUpdate'.to
        IN /\ OthersUnchanged(before, after, s, r)
           /\ s # r => /\ OneAppended(before, after, s, "send", recorded')
                       /\ OneAppended(before, after, r, "receive", recorded')
           /\ s = r => BothAppended(before, after, s, recorded')

C25_AmendedStep ==
    CallCompleted =>
        LET before == LoadWhaleData(whale_file)
            after == whale_file'.data
            s == lastUpdate'.from
            r == lastUpdate'.to
        IN /\ OthersUnchanged(before, after, s, r)
           /\ s # r => /\ OneAppended(before, after, s, "send", recorded')
                       /\ OneAppended(before, after, r, "receive", recorded')
           /\ s = r => BothAppendedThenCut(before, after, s, recorded')

====
